---- MODULE Spec2Model ----
(***************************************************************************)
(* A model of the query/mutation translator of ndc-postgres: the State     *)
(* that hands out table aliases, the value translation, the field and     *)
(* nested-field translation, the rows/aggregates query root and the       *)
(* auto-generated insert and update mutations.                            *)
(*                                                                         *)
(* The translator is a set of functions that thread a State through their *)
(* calls.  Each function is an operator that takes the State and returns   *)
(* a record [state |-> the State afterwards, ...its result...].  Results   *)
(* of fallible functions are Ok(value) or Err(error); a Rust panic         *)
(* (unwrap on Err, todo!()) is the third outcome Panic(message).           *)
(***************************************************************************)
EXTENDS Integers, Sequences, FiniteSets, TLC

VARIABLES
    state,      \* the State of the translation in progress / last finished
    issued,     \* history: the aliases handed out by State, in order
    op,         \* the operation that ran last
    request,    \* its input
    result,     \* its output
    previous,   \* the output of the run before it, when on the same input
    runtime     \* the execution of a plan: position, log and database

vars == <<state, issued, op, request, result, previous, runtime>>

(***************************************************************************)
(* Option and Result values.                                               *)
(***************************************************************************)
None == [tag |-> "None"]

Some(v) == [tag |-> "Some", value |-> v]

Ok(v) == [tag |-> "Ok", value |-> v]

Err(e) == [tag |-> "Err", error |-> e]

Panic(m) == [tag |-> "Panic", message |-> m]

IsOk(r) == r.tag = "Ok"

\* The question-mark operator of the source on a translation step: its Ok continues into k, any
\* other outcome is returned as it is.
Try(r, k(_)) == IF IsOk(r.result) THEN k(r) ELSE r

(***************************************************************************)
(* Sorted sequences: the iteration order of a BTreeMap or BTreeSet of      *)
(* strings.  The model's names are compared through Rank, which lists      *)
(* them in their byte order.                                               *)
(***************************************************************************)
NameOrder == <<"a", "address", "addresses", "b", "big", "c", "d", "e", "f",
               "g", "id", "matrix", "name", "owner", "pk", "street", "tags",
               "title", "uq", "zz">>

Rank(n) == CHOOSE i \in 1..Len(NameOrder) : NameOrder[i] = n

RECURSIVE SortedSeq(_)
SortedSeq(S) ==
    IF S = {} THEN <<>>
    ELSE LET m == CHOOSE x \in S : \A y \in S : Rank(x) <= Rank(y)
         IN  <<m>> \o SortedSeq(S \ {m})

Range(s) == {s[i] : i \in 1..Len(s)}

(***************************************************************************)
(* The State (helpers.rs).                                                 *)
(***************************************************************************)
MaxAliases == 3

\* State::default / State::new: no native queries, index 0.
StateDefault == [native_queries |-> <<>>, global_table_index |-> 0]

\* A State::new that hands the State of the previous translation on.
StateNewStale == state

StateNew == StateDefault

\* A next_global_table_index that forgets to increment.
NextGlobalTableIndexStale(st) ==
    [state |-> st, index |-> st.global_table_index]

\* next_global_table_index: increment the table index and return the
\* current one.  The index is a u64; the model's guards keep it far below
\* 2^64, where index + 1 would overflow.
NextGlobalTableIndex(st) ==
    [state |-> [st EXCEPT !.global_table_index = st.global_table_index + 1],
     index |-> st.global_table_index]

TableAlias(index, name) == [unique_index |-> index, name |-> name]

\* A make_table_alias that leaves the index where it was.
MakeTableAliasStale(st, name) ==
    [state |-> st, alias |-> TableAlias(st.global_table_index, name)]

\* make_table_alias: every alias gets its index from the State.
MakeTableAlias(st, name) ==
    LET n == NextGlobalTableIndex(st)
    IN  [state |-> n.state, alias |-> TableAlias(n.index, name)]

MakeRelationshipTableAlias(st, name) ==
    MakeTableAlias(st, "RELATIONSHIP_" \o name)

MakeOrderPathPartTableAlias(st, table_name) ==
    MakeTableAlias(st, "ORDER_PART_" \o table_name)

MakeOrderByTableAlias(st, source_table_name) ==
    MakeTableAlias(st, "ORDER_FOR_" \o source_table_name)

MakeNativeQueryTableAlias(st, name) ==
    MakeTableAlias(st, "NATIVE_QUERY_" \o name)

MakeBooleanExpressionTableAlias(st, source_table_name) ==
    MakeTableAlias(st, "BOOLEXP_" \o source_table_name)

\* sql::ast::TableReference
AliasedTable(alias) == [tag |-> "AliasedTable", alias |-> alias]

DBTable(schema, table) == [tag |-> "DBTable", schema |-> schema, table |-> table]

\* sql::ast::From, the variants the translator builds.
FromTable(reference, alias) ==
    [tag |-> "Table", reference |-> reference, alias |-> alias]

FromSelect(select, alias) == [tag |-> "Select", select |-> select, alias |-> alias]

FromJsonbArrayElements(expression, alias, column) ==
    [tag |-> "JsonbArrayElements", expression |-> expression,
     alias |-> alias, column |-> column]

FromVariables(alias) == [tag |-> "Variables", alias |-> alias]

\* A make_variables_table that makes nothing for an empty list of variables.
MakeVariablesTableOfSome(st, variables) ==
    IF variables = None \/ variables = Some(<<>>)
    THEN [state |-> st, value |-> None]
    ELSE LET a == MakeTableAlias(st, "%variables_table")
         IN  [state |-> a.state,
              value |-> Some([from |-> FromVariables(a.alias),
                              reference |-> AliasedTable(a.alias)])]

\* make_variables_table: an alias and a from clause when variables were
\* passed (even an empty list), nothing otherwise.
MakeVariablesTable(st, variables) ==
    IF variables = None
    THEN [state |-> st, value |-> None]
    ELSE LET a == MakeTableAlias(st, "%variables_table")
         IN  [state |-> a.state,
              value |-> Some([from |-> FromVariables(a.alias),
                              reference |-> AliasedTable(a.alias)])]

\* An insert_native_query that keeps only the query it was called with.
InsertNativeQueryReplacing(st, name, info, arguments) ==
    LET a == MakeNativeQueryTableAlias(st, name)
    IN  [state |-> [a.state EXCEPT !.native_queries =
                        <<[info |-> info, arguments |-> arguments,
                           alias |-> a.alias]>>],
         value |-> AliasedTable(a.alias)]

\* insert_native_query: a fresh NATIVE_QUERY_ alias, pushed with the
\* query's info and arguments at the end of the list.
InsertNativeQuery(st, name, info, arguments) ==
    LET a == MakeNativeQueryTableAlias(st, name)
    IN  [state |-> [a.state EXCEPT !.native_queries =
                        Append(@, [info |-> info, arguments |-> arguments,
                                   alias |-> a.alias])],
         value |-> AliasedTable(a.alias)]

\* get_native_queries
GetNativeQueries(st) == st.native_queries

(***************************************************************************)
(* JSON values (serde_json::Value).  A number carries what as_f64 gives:   *)
(* Some(x), or None for a number with no f64 form.  An object is the       *)
(* sequence of its (name, value) entries in iteration order, names         *)
(* distinct.                                                               *)
(***************************************************************************)
JNull == [j |-> "Null"]

JBool(b) == [j |-> "Bool", b |-> b]

JNumber(f) == [j |-> "Number", as_f64 |-> f]

JString(s) == [j |-> "String", s |-> s]

JArray(items) == [j |-> "Array", items |-> items]

JObject(entries) == [j |-> "Object", entries |-> entries]

Keys(entries) == {entries[i][1] : i \in 1..Len(entries)}

\* Map::get on an object's entries (the name is known to be present).
EntryValue(entries, k) ==
    entries[CHOOSE i \in 1..Len(entries) : entries[i][1] = k][2]

(***************************************************************************)
(* metadata::Type (database.rs).                                           *)
(***************************************************************************)
ScalarType(n) == [t |-> "ScalarType", name |-> n]

CompositeType(n) == [t |-> "CompositeType", name |-> n]

ArrayType(e) == [t |-> "ArrayType", elem |-> e]

(***************************************************************************)
(* sql::ast expressions and selects, as the translator builds them.        *)
(***************************************************************************)
ValueNull == [tag |-> "Null"]

ValueBool(b) == [tag |-> "Bool", b |-> b]

ValueFloat8(x) == [tag |-> "Float8", x |-> x]

ValueInt4(i) == [tag |-> "Int4", i |-> i]

ValueString(s) == [tag |-> "String", s |-> s]

ValueJsonValue(v) == [tag |-> "JsonValue", json |-> v]

ValueArray(items) == [tag |-> "Array", items |-> items]

ExprValue(v) == [tag |-> "Value", value |-> v]

Cast(e, ty) == [tag |-> "Cast", expression |-> e, type |-> ty]

BinaryOperation(l, o, r) ==
    [tag |-> "BinaryOperation", left |-> l, operator |-> o, right |-> r]

ExprAnd(l, r) == [tag |-> "And", left |-> l, right |-> r]

ExprNot(e) == [tag |-> "Not", expression |-> e]

ExprExists(sel) == [tag |-> "Exists", select |-> sel]

FunctionCall(f, args) == [tag |-> "FunctionCall", function |-> f, args |-> args]

RowToJson(tr) == [tag |-> "RowToJson", table |-> tr]

CorrelatedSubSelect(sel) == [tag |-> "CorrelatedSubSelect", select |-> sel]

ColumnAlias(n) == [name |-> n]

AliasedColumn(tr, c) ==
    [tag |-> "ColumnReference", kind |-> "AliasedColumn", table |-> tr, column |-> c]

TableColumn(tr, n) ==
    [tag |-> "ColumnReference", kind |-> "TableColumn", table |-> tr, name |-> n]

\* ScalarTypeName::new_unqualified
ScalarTypeName(n) == [name |-> n, is_array |-> FALSE]

\* sql::helpers::true_expr
TrueExpr == ExprValue(ValueBool(TRUE))

SelectStar == [tag |-> "SelectStar"]

SelectList(cols) == [tag |-> "SelectList", columns |-> cols]

SelectListComposite(l, r) == [tag |-> "SelectListComposite", left |-> l, right |-> r]

NoLimit == [limit |-> None, offset |-> None]

\* sql::helpers::simple_select: the given select list, and nothing else.
SimpleSelect(cols) ==
    [select_list |-> SelectList(cols), from |-> None, joins |-> <<>>,
     where_ |-> TrueExpr, order_by |-> <<>>, limit |-> NoLimit]

\* sql::helpers::select_composite: SELECT (<expression>).*
SelectComposite(e) ==
    [select_list |-> [tag |-> "SelectStarComposite", expression |-> e],
     from |-> None, joins |-> <<>>, where_ |-> TrueExpr, order_by |-> <<>>,
     limit |-> NoLimit]

(***************************************************************************)
(* Value translation (values.rs).                                          *)
(***************************************************************************)
\* type_to_ast_scalar_type: nested arrays collapse to one array level.
RECURSIVE TypeToAstScalarType(_)
TypeToAstScalarType(typ) ==
    CASE typ.t = "ArrayType" ->
            [TypeToAstScalarType(typ.elem) EXCEPT !.is_array = TRUE]
      [] typ.t = "ScalarType" -> ScalarTypeName(typ.name)
      [] typ.t = "CompositeType" -> ScalarTypeName(typ.name)

TextArrayType == [ScalarTypeName("text") EXCEPT !.is_array = TRUE]

\* translate_projected_variable: an expression of type jsonb into the type.
RECURSIVE TranslateProjectedVariable(_, _, _)
TranslateProjectedVariable(st, typ, exp) ==
    CASE typ.t = "CompositeType" ->
            [state |-> st,
             value |-> FunctionCall("jsonb_populate_record",
                           <<Cast(ExprValue(ValueNull), TypeToAstScalarType(typ)),
                             exp>>)]
      [] typ.t = "ArrayType" ->
            LET a == MakeTableAlias(st, "array")
                element_column == ColumnAlias("element")
                from_arr == FromJsonbArrayElements(exp, a.alias, element_column)
                element_expression ==
                    AliasedColumn(AliasedTable(a.alias), element_column)
                converted ==
                    TranslateProjectedVariable(a.state, typ.elem, element_expression)
                result_select ==
                    [SimpleSelect(<<<<element_column,
                                      FunctionCall("array_agg", <<converted.value>>)>>>>)
                        EXCEPT !.from = Some(from_arr)]
            IN  [state |-> converted.state,
                 value |-> CorrelatedSubSelect(result_select)]
      [] typ.t = "ScalarType" ->
            [state |-> st,
             value |-> Cast(BinaryOperation(exp, "#>>",
                                Cast(ExprValue(ValueArray(<<>>)), TextArrayType)),
                            TypeToAstScalarType(typ))]

\* A translate_json_value that refuses a value whose constructor does not
\* fit the expected type.
TranslateJsonValueStrict(st, value, typ) ==
    CASE value.j = "Null" ->
            [state |-> st,
             result |-> Ok(Cast(ExprValue(ValueNull), TypeToAstScalarType(typ)))]
      [] value.j = "Bool" ->
            [state |-> st, result |-> Ok(ExprValue(ValueBool(value.b)))]
      [] value.j = "Number" ->
            [state |-> st,
             result |-> IF value.as_f64 = None
                        THEN Err([tag |-> "UnableToDeserializeNumberAsF64"])
                        ELSE Ok(ExprValue(ValueFloat8(value.as_f64.value)))]
      [] value.j = "String" ->
            [state |-> st,
             result |-> Ok(Cast(ExprValue(ValueString(value.s)),
                                TypeToAstScalarType(typ)))]
      [] value.j = "Array" /\ typ.t = "ArrayType" ->
            LET r == TranslateProjectedVariable(st, typ, ExprValue(ValueJsonValue(value)))
            IN  [state |-> r.state, result |-> Ok(r.value)]
      [] value.j = "Object" /\ typ.t = "CompositeType" ->
            LET r == TranslateProjectedVariable(st, typ, ExprValue(ValueJsonValue(value)))
            IN  [state |-> r.state, result |-> Ok(r.value)]
      [] OTHER ->
            [state |-> st, result |-> Err([tag |-> "UnexpectedStructure"])]

\* translate_json_value: a JSON literal at an expected type.
TranslateJsonValue(st, value, typ) ==
    CASE value.j = "Null" ->
            [state |-> st,
             result |-> Ok(Cast(ExprValue(ValueNull), TypeToAstScalarType(typ)))]
      [] value.j = "Bool" ->
            [state |-> st, result |-> Ok(ExprValue(ValueBool(value.b)))]
      [] value.j = "Number" ->
            [state |-> st,
             result |-> IF value.as_f64 = None
                        THEN Err([tag |-> "UnableToDeserializeNumberAsF64"])
                        ELSE Ok(ExprValue(ValueFloat8(value.as_f64.value)))]
      [] value.j = "String" ->
            [state |-> st,
             result |-> Ok(Cast(ExprValue(ValueString(value.s)),
                                TypeToAstScalarType(typ)))]
      [] value.j = "Array" /\ typ.t = "ArrayType" ->
            LET r == TranslateProjectedVariable(st, typ, ExprValue(ValueJsonValue(value)))
            IN  [state |-> r.state, result |-> Ok(r.value)]
      [] value.j = "Object" /\ typ.t = "CompositeType" ->
            LET r == TranslateProjectedVariable(st, typ, ExprValue(ValueJsonValue(value)))
            IN  [state |-> r.state, result |-> Ok(r.value)]
      [] OTHER ->
            [state |-> st,
             result |-> Ok(Cast(Cast(ExprValue(ValueJsonValue(value)),
                                     ScalarTypeName("jsonb")),
                                TypeToAstScalarType(typ)))]

\* sql::helpers::VARIABLES_FIELD
VariablesField == "variables"

\* A translate_variable that converts the variables column itself.
TranslateVariableUnprojected(st, variables_table, variable, typ) ==
    TranslateProjectedVariable(
        st, typ, AliasedColumn(variables_table, ColumnAlias(VariablesField)))

\* translate_variable: the variable is projected with -> from the variables
\* column of the variables table, and the projection converted to the type.
TranslateVariable(st, variables_table, variable, typ) ==
    LET variables_reference ==
            AliasedColumn(variables_table, ColumnAlias(VariablesField))
        projected_variable_exp ==
            BinaryOperation(variables_reference, "->",
                            ExprValue(ValueString(variable)))
    IN  TranslateProjectedVariable(st, typ, projected_variable_exp)

(***************************************************************************)
(* Catalog tables (database.rs).  `columns` is a function from the column  *)
(* names of the collection to ColumnInfo.                                  *)
(***************************************************************************)
ColumnInfo(name, typ, nullable, has_default, is_identity, is_generated) ==
    [name |-> name, type |-> typ, nullable |-> nullable,
     has_default |-> has_default, is_identity |-> is_identity,
     is_generated |-> is_generated]

TableInfo(schema, table, columns, uniqueness) ==
    [schema_name |-> schema, table_name |-> table, columns |-> columns,
     uniqueness_constraints |-> uniqueness]

\* BTreeMap::get
MapGet(m, k) == IF k \in DOMAIN m THEN Some(m[k]) ELSE None

(***************************************************************************)
(* Predicates.  The `constraint`, `pre_check` and `post_check` arguments   *)
(* are JSON documents decoded into models::Expression and translated by    *)
(* filtering::translate_expression against the mutated table.              *)
(***************************************************************************)
PredAnd(ps) == JObject(<< <<"type", JString("and")>>, <<"expressions", JArray(ps)>> >>)

PredNot(p) == JObject(<< <<"type", JString("not")>>, <<"expression", p>> >>)

PredIsNull(c) ==
    JObject(<< <<"type", JString("unary_comparison_operator")>>,
               <<"column", JString(c)>>, <<"operator", JString("is_null")>> >>)

\* serde_json::from_value::<models::Expression>: Some(expression), or None
\* for a document that is no expression.
RECURSIVE DecodeExpression(_)
DecodeExpression(json) ==
    IF json.j # "Object" \/ Len(json.entries) = 0 \/ json.entries[1][1] # "type"
    THEN None
    ELSE LET kind == json.entries[1][2]
         IN  CASE kind = JString("and") ->
                     LET ps == json.entries[2][2].items
                         ds == [i \in 1..Len(ps) |-> DecodeExpression(ps[i])]
                     IN  IF \E i \in 1..Len(ps) : ds[i] = None THEN None
                         ELSE Some([e |-> "And",
                                    expressions |-> [i \in 1..Len(ps) |-> ds[i].value]])
               [] kind = JString("not") ->
                     LET d == DecodeExpression(json.entries[2][2])
                     IN  IF d = None THEN None
                         ELSE Some([e |-> "Not", expression |-> d.value])
               [] kind = JString("unary_comparison_operator") ->
                     Some([e |-> "IsNull", column |-> json.entries[2][2].s])
               [] OTHER -> None

\* helpers::TableNameAndReference and RootAndCurrentTables
TableNameAndReference(name, reference) == [name |-> name, reference |-> reference]

RootAndCurrentTables(root, current) == [root_table |-> root, current_table |-> current]

\* filtering::translate_expression over the columns of the current table:
\* And folds its operands onto TRUE, Not negates, a unary comparison looks
\* its column up in the current table, or in the root table when its
\* target is a root collection column, and Exists translates its predicate
\* over the collection it names.
RECURSIVE TranslateExpression(_, _, _, _)
RECURSIVE TranslateRootCollectionColumn(_, _, _)
RECURSIVE TranslateExistsInCollection(_, _, _, _)

\* The operands of an And from operand i on, each translated in the state
\* the one before it left, folded onto acc.
RECURSIVE AndFrom(_, _, _, _, _, _)
AndFrom(st, columns, tables, expressions, i, acc) ==
    IF i > Len(expressions) THEN [state |-> st, result |-> Ok(acc)]
    ELSE Try(TranslateExpression(st, columns, tables, expressions[i]),
             LAMBDA r : AndFrom(r.state, columns, tables, expressions, i + 1,
                                ExprAnd(acc, r.result.value)))

TranslateExpression(st, columns, tables, predicate) ==
    CASE predicate.e = "And" ->
            AndFrom(st, columns, tables, predicate.expressions, 1, TrueExpr)
      [] predicate.e = "Not" ->
            LET r == TranslateExpression(st, columns, tables, predicate.expression)
            IN  IF IsOk(r.result)
                THEN [state |-> r.state, result |-> Ok(ExprNot(r.result.value))]
                ELSE r
      [] predicate.e = "IsNull" ->
            [state |-> st,
             result |->
                IF predicate.column \in DOMAIN columns
                THEN Ok([tag |-> "UnaryOperation", operator |-> "IS NULL",
                         expression |->
                             TableColumn(tables.current_table.reference,
                                         columns[predicate.column].name)])
                ELSE Err([tag |-> "ColumnNotFoundInCollection",
                          column |-> predicate.column,
                          collection |-> tables.current_table.name])]
      [] predicate.e = "IsNullRoot" ->
            TranslateRootCollectionColumn(st, tables, predicate.column)
      [] predicate.e = "Exists" ->
            IF predicate.predicate = None
            THEN [state |-> st, result |-> Ok(TrueExpr)]
            ELSE TranslateExistsInCollection(st, tables, predicate.in_collection,
                                             predicate.predicate.value)

\* sql::helpers::CHECK_CONSTRAINT_FIELD as a column alias
CheckConstraintAlias == ColumnAlias("CHECK_CONSTRAINT")

(***************************************************************************)
(* The experimental insert (mutation/experimental/insert.rs).              *)
(***************************************************************************)
InsertExpression(e) == [tag |-> "Expression", expression |-> e]

InsertDefault == [tag |-> "Default"]

\* generate
ExperimentalInsertGenerate(collection_name, table_info) ==
    [name |-> "experimental_insert_" \o collection_name,
     mutation |-> [collection_name |-> collection_name,
                   schema_name |-> table_info.schema_name,
                   table_name |-> table_info.table_name,
                   columns |-> table_info.columns,
                   constraint |-> [argument_name |-> "constraint"]]]

\* A check_columns that asks for a value in every column its first arm does
\* not accept, generated and identity-always columns included.
CheckColumnValueRequired(name, column, inserted_columns, insert_name) ==
    LET value == MapGet(inserted_columns, column.name)
    IN  CASE \/ column.nullable = "Nullable"
             \/ column.has_default = "HasDefault"
             \/ column.is_identity = "IdentityByDefault" -> Ok("unit")
          [] OTHER ->
                IF value # None /\ value.value.tag = "Expression"
                THEN Ok("unit")
                ELSE Err([tag |-> "MissingColumnInInsert", column |-> name,
                          collection |-> insert_name])

\* One iteration of check_columns: the match on one catalog column, its
\* arms in the order of the source.
CheckColumn(name, column, inserted_columns, insert_name) ==
    LET value == MapGet(inserted_columns, column.name)
    IN  CASE \/ column.nullable = "Nullable"
             \/ column.has_default = "HasDefault"
             \/ column.is_identity = "IdentityByDefault" -> Ok("unit")
          [] column.is_generated = "Stored" ->
                IF value # None /\ value.value # InsertDefault
                THEN Err([tag |-> "ColumnIsGenerated", column |-> name])
                ELSE Ok("unit")
          [] column.is_identity = "IdentityAlways" ->
                IF value # None /\ value.value # InsertDefault
                THEN Err([tag |-> "ColumnIsIdentityAlways", column |-> name])
                ELSE Ok("unit")
          [] OTHER ->
                IF value # None /\ value.value.tag = "Expression"
                THEN Ok("unit")
                ELSE Err([tag |-> "MissingColumnInInsert", column |-> name,
                          collection |-> insert_name])

\* The first element, in the order of `names`, whose check fails, or Ok.
FirstErr(names, check(_)) ==
    IF \A i \in 1..Len(names) : IsOk(check(names[i])) THEN Ok("unit")
    ELSE check(names[CHOOSE i \in 1..Len(names) :
                        /\ ~IsOk(check(names[i]))
                        /\ \A k \in 1..(i - 1) : IsOk(check(names[k]))])

\* check_columns: the catalog columns in name order, stopping at the first
\* error.
CheckColumns(columns, inserted_columns, insert_name) ==
    LET check(name) == CheckColumn(name, columns[name], inserted_columns, insert_name)
    IN  FirstErr(SortedSeq(DOMAIN columns), check)

\* The loop of translate_object_into_columns_and_values from entry i on:
\* look the column up, translate the value, insert it under the column's
\* name.
RECURSIVE ObjectEntriesFrom(_, _, _, _, _)
ObjectEntriesFrom(st, mutation, entries, i, acc) ==
    IF i > Len(entries) THEN [state |-> st, result |-> Ok(acc)]
    ELSE LET name == entries[i][1]
             column_info == MapGet(mutation.columns, name)
         IN  IF column_info = None
             THEN [state |-> st,
                   result |-> Err([tag |-> "ColumnNotFoundInCollection",
                                   column |-> name,
                                   collection |-> mutation.collection_name])]
             ELSE Try(TranslateJsonValue(st, entries[i][2], column_info.value.type),
                      LAMBDA v :
                          ObjectEntriesFrom(
                              v.state, mutation, entries, i + 1,
                              (column_info.value.name :> InsertExpression(v.result.value))
                                  @@ acc))

EmptyMap == [x \in {} |-> None]

\* translate_object_into_columns_and_values
TranslateObjectIntoColumnsAndValues(st, mutation, object) ==
    CASE object.j = "Object" ->
            ObjectEntriesFrom(st, mutation, object.entries, 1, EmptyMap)
      [] object.j = "Array" ->
            [state |-> st,
             result |-> Err([tag |-> "UnexpectedStructure",
                             message |-> "array of arrays structure in insert _objects argument. Expecting an array of objects."])]
      [] OTHER ->
            [state |-> st,
             result |-> Err([tag |-> "UnexpectedStructure",
                             message |-> "array of values structure in insert _objects argument. Expecting an array of objects."])]

\* The first loop of translate_objects_to_columns_and_values from object i
\* on: one map per object, stopping at the first error.
RECURSIVE ObjectsFrom(_, _, _, _, _)
ObjectsFrom(st, mutation, array, i, acc) ==
    IF i > Len(array) THEN [state |-> st, result |-> Ok(acc)]
    ELSE Try(TranslateObjectIntoColumnsAndValues(st, mutation, array[i]),
             LAMBDA r : ObjectsFrom(r.state, mutation, array, i + 1,
                                    Append(acc, r.result.value)))

\* A backfill that writes NULL where the row names no value.
FillDefaultsWithNull(columns_and_values, union_of_columns) ==
    [c \in union_of_columns |->
        IF c \in DOMAIN columns_and_values THEN columns_and_values[c]
        ELSE InsertExpression(ExprValue(ValueNull))]

\* A row with DEFAULT for every column of the union it does not name.
FillDefaults(columns_and_values, union_of_columns) ==
    [c \in union_of_columns |->
        IF c \in DOMAIN columns_and_values THEN columns_and_values[c]
        ELSE InsertDefault]

\* translate_objects_to_columns_and_values
TranslateObjectsToColumnsAndValues(st, mutation, value) ==
    CASE value.j = "Array" ->
            Try(ObjectsFrom(st, mutation, value.items, 1, <<>>),
                LAMBDA objs :
                LET all == objs.result.value
                    union_of_columns ==
                        UNION {DOMAIN all[i] : i \in 1..Len(all)}
                    filled == [i \in 1..Len(all) |->
                                  FillDefaults(all[i], union_of_columns)]
                    check(i) == CheckColumns(mutation.columns, filled[i],
                                             mutation.collection_name)
                    checked == FirstErr([i \in 1..Len(all) |-> i], check)
                    cols == SortedSeq(union_of_columns)
                IN  IF ~IsOk(checked)
                    THEN [state |-> objs.state, result |-> checked]
                    ELSE [state |-> objs.state,
                          result |->
                            Ok([columns |-> cols,
                                values |-> [i \in 1..Len(all) |->
                                              [k \in 1..Len(cols) |->
                                                  filled[i][cols[k]]]]])])
      [] value.j = "Object" ->
            [state |-> st,
             result |-> Err([tag |-> "UnexpectedStructure",
                             message |-> "object structure in insert _objects argument. Expecting an array of objects."])]
      [] OTHER ->
            [state |-> st,
             result |-> Err([tag |-> "UnexpectedStructure",
                             message |-> "value structure in insert _objects argument. Expecting an array of objects."])]

ArgumentNotFound(n) == Err([tag |-> "ArgumentNotFound", argument |-> n])

\* The table a mutation writes to, as root and current table.
MutationTables(mutation) ==
    LET t == TableNameAndReference(mutation.collection_name,
                                   DBTable(mutation.schema_name, mutation.table_name))
    IN  RootAndCurrentTables(t, t)

\* A predicate argument: fetched, decoded, translated.
TranslatePredicateArgument(st, mutation, arguments, argument_name) ==
    LET predicate_json == MapGet(arguments, argument_name)
        predicate == DecodeExpression(predicate_json.value)
    IN  IF predicate_json = None
        THEN [state |-> st, result |-> ArgumentNotFound(argument_name)]
        ELSE IF predicate = None
        THEN [state |-> st, result |-> ArgumentNotFound(argument_name)]
        ELSE TranslateExpression(st, mutation.columns, MutationTables(mutation),
                                 predicate.value)

\* A translate that fetches and translates the `constraint` argument
\* before it looks at the objects.
ExperimentalInsertTranslateConstraintFirst(st, mutation, arguments) ==
    LET object == MapGet(arguments, "_objects")
    IN  IF object = None
        THEN [state |-> st, result |-> ArgumentNotFound("_objects")]
        ELSE
        Try(TranslatePredicateArgument(st, mutation, arguments,
                                       mutation.constraint.argument_name),
            LAMBDA predicate :
        Try(TranslateObjectsToColumnsAndValues(predicate.state, mutation, object.value),
            LAMBDA cv :
             [state |-> cv.state,
              result |->
                Ok([insert |->
                      [schema |-> mutation.schema_name,
                       table |-> mutation.table_name,
                       columns |-> cv.result.value.columns,
                       values |-> cv.result.value.values,
                       returning |->
                          SelectListComposite(
                              SelectStar,
                              SelectList(<<<<CheckConstraintAlias,
                                             predicate.result.value>>>>))],
                    check_constraint_alias |-> CheckConstraintAlias])]))

\* translate: the Insert for the `_objects` and `constraint` arguments.
ExperimentalInsertTranslate(st, mutation, arguments) ==
    LET object == MapGet(arguments, "_objects")
    IN  IF object = None
        THEN [state |-> st, result |-> ArgumentNotFound("_objects")]
        ELSE
        Try(TranslateObjectsToColumnsAndValues(st, mutation, object.value),
            LAMBDA cv :
        Try(TranslatePredicateArgument(cv.state, mutation, arguments,
                                       mutation.constraint.argument_name),
            LAMBDA predicate :
             [state |-> predicate.state,
              result |->
                Ok([insert |->
                      [schema |-> mutation.schema_name,
                       table |-> mutation.table_name,
                       columns |-> cv.result.value.columns,
                       values |-> cv.result.value.values,
                       returning |->
                          SelectListComposite(
                              SelectStar,
                              SelectList(<<<<CheckConstraintAlias,
                                             predicate.result.value>>>>))],
                    check_constraint_alias |-> CheckConstraintAlias])]))

(***************************************************************************)
(* The v1 insert (mutation/v1/insert.rs).                                  *)
(***************************************************************************)
\* generate
V1InsertGenerate(collection_name, table_info) ==
    [name |-> "v1_insert_" \o collection_name,
     mutation |-> [collection_name |-> collection_name,
                   schema_name |-> table_info.schema_name,
                   table_name |-> table_info.table_name,
                   columns |-> table_info.columns]]

\* A v1 check_columns iteration that lets a value into a generated or an
\* identity-always column.
V1CheckColumnAnyValue(name, column, inserted_columns, insert_name) ==
    LET contains == column.name \in Range(inserted_columns)
    IN  CASE \/ column.nullable = "Nullable"
             \/ column.has_default = "HasDefault"
             \/ column.is_identity = "IdentityByDefault"
             \/ column.is_generated = "Stored"
             \/ column.is_identity = "IdentityAlways" -> Ok("unit")
          [] OTHER ->
                IF contains THEN Ok("unit")
                ELSE Err([tag |-> "MissingColumnInInsert", column |-> name,
                          collection |-> insert_name])

\* One iteration of the v1 check_columns; inserted_columns is the list of
\* the column names the object gave.
V1CheckColumn(name, column, inserted_columns, insert_name) ==
    LET contains == column.name \in Range(inserted_columns)
    IN  CASE \/ column.nullable = "Nullable"
             \/ column.has_default = "HasDefault"
             \/ column.is_identity = "IdentityByDefault" -> Ok("unit")
          [] column.is_generated = "Stored" ->
                IF contains THEN Err([tag |-> "ColumnIsGenerated", column |-> name])
                ELSE Ok("unit")
          [] column.is_identity = "IdentityAlways" ->
                IF contains
                THEN Err([tag |-> "ColumnIsIdentityAlways", column |-> name])
                ELSE Ok("unit")
          [] OTHER ->
                IF contains THEN Ok("unit")
                ELSE Err([tag |-> "MissingColumnInInsert", column |-> name,
                          collection |-> insert_name])

\* check_columns of the v1 insert
V1CheckColumns(columns, inserted_columns, insert_name) ==
    LET check(name) == V1CheckColumn(name, columns[name], inserted_columns, insert_name)
    IN  FirstErr(SortedSeq(DOMAIN columns), check)

\* The loop of the v1 translate over the entries of `_object` from entry i
\* on: the column names and the values, pushed in iteration order.
RECURSIVE V1EntriesFrom(_, _, _, _, _, _)
V1EntriesFrom(st, mutation, entries, i, columns, values) ==
    IF i > Len(entries)
    THEN [state |-> st, result |-> Ok([columns |-> columns, values |-> values])]
    ELSE LET name == entries[i][1]
             column_info == MapGet(mutation.columns, name)
         IN  IF column_info = None
             THEN [state |-> st,
                   result |-> Err([tag |-> "ColumnNotFoundInCollection",
                                   column |-> name,
                                   collection |-> mutation.collection_name])]
             ELSE Try(TranslateJsonValue(st, entries[i][2], column_info.value.type),
                      LAMBDA v :
                          V1EntriesFrom(
                              v.state, mutation, entries, i + 1,
                              Append(columns, column_info.value.name),
                              Append(values, InsertExpression(v.result.value))))

\* translate: the Insert for the `_object` argument.  An `_object` that is
\* no JSON object reaches todo!(), which panics.
V1InsertTranslate(st, mutation, arguments) ==
    LET object == MapGet(arguments, "_object")
    IN  IF object = None
        THEN [state |-> st, result |-> ArgumentNotFound("_object")]
        ELSE IF object.value.j # "Object"
        THEN [state |-> st, result |-> Panic("not yet implemented")]
        ELSE
        Try(V1EntriesFrom(st, mutation, object.value.entries, 1, <<>>, <<>>),
            LAMBDA cv :
        LET checked == V1CheckColumns(mutation.columns, cv.result.value.columns,
                                      mutation.collection_name)
        IN   IF ~IsOk(checked) THEN [state |-> cv.state, result |-> checked]
             ELSE
             [state |-> cv.state,
              result |->
                Ok([insert |->
                      [schema |-> mutation.schema_name,
                       table |-> mutation.table_name,
                       columns |-> cv.result.value.columns,
                       values |-> <<cv.result.value.values>>,
                       returning |->
                          SelectListComposite(
                              SelectStar,
                              SelectList(<<<<CheckConstraintAlias, TrueExpr>>>>))],
                    check_constraint_alias |-> CheckConstraintAlias])])

(***************************************************************************)
(* The update by unique key (mutation/experimental/update.rs).             *)
(***************************************************************************)
\* unique_constraints::get_non_compound_uniqueness_constraints: the column
\* of every uniqueness constraint over exactly one column, in the order of
\* the constraint names.
GetNonCompoundUniquenessConstraints(table_info) ==
    LET names == SortedSeq(DOMAIN table_info.uniqueness_constraints)
        single == SelectSeq(names,
                            LAMBDA n : Cardinality(table_info.uniqueness_constraints[n]) = 1)
    IN  [i \in 1..Len(single) |->
            CHOOSE c \in table_info.uniqueness_constraints[single[i]] : TRUE]

\* An UpdateByKey named after its collection alone.
UpdateByKeyNamedByCollection(collection_name, table_info, unique_column) ==
    [name |-> "experimental_update_" \o collection_name,
     mutation |-> [collection_name |-> collection_name,
                   schema_name |-> table_info.schema_name,
                   table_name |-> table_info.table_name,
                   by_column |-> unique_column,
                   set_argument_name |-> "_set",
                   pre_check |-> [argument_name |-> "pre_check"],
                   post_check |-> [argument_name |-> "post_check"],
                   columns |-> table_info.columns]]

\* The UpdateByKey of one unique column.
UpdateByKey(collection_name, table_info, unique_column) ==
    [name |-> "experimental_update_" \o collection_name \o "_by_" \o unique_column.name,
     mutation |-> [collection_name |-> collection_name,
                   schema_name |-> table_info.schema_name,
                   table_name |-> table_info.table_name,
                   by_column |-> unique_column,
                   set_argument_name |-> "_set",
                   pre_check |-> [argument_name |-> "pre_check"],
                   post_check |-> [argument_name |-> "post_check"],
                   columns |-> table_info.columns]]

\* generate_update_by_unique: one update per simple unique constraint
\* whose column the table has.
GenerateUpdateByUnique(collection_name, table_info) ==
    LET keys == GetNonCompoundUniquenessConstraints(table_info)
        found == SelectSeq(keys, LAMBDA k : k \in DOMAIN table_info.columns)
    IN  [i \in 1..Len(found) |->
            UpdateByKey(collection_name, table_info, table_info.columns[found[i]])]

\* mutation::check_columns::check_columns with CheckMissingColumns::No:
\* the column rules of the insert, except that a column that is absent is
\* never an error.
CheckColumnsNoMissing(columns, inserted_columns, insert_name) ==
    LET check(name) ==
            LET r == CheckColumn(name, columns[name], inserted_columns, insert_name)
            IN  IF ~IsOk(r) /\ r.error.tag = "MissingColumnInInsert"
                THEN Ok("unit") ELSE r
    IN  FirstErr(SortedSeq(DOMAIN columns), check)

\* parse_set: the `_set` object as a map from column names to values,
\* checked against the column rules.
ParseSet(st, mutation, object) ==
    CASE object.j = "Object" ->
            Try(ObjectEntriesFrom(st, mutation, object.entries, 1, EmptyMap),
                LAMBDA r :
                LET checked == CheckColumnsNoMissing(mutation.columns, r.result.value,
                                                     mutation.collection_name)
                IN  IF ~IsOk(checked) THEN [state |-> r.state, result |-> checked]
                    ELSE r)
      [] object.j = "Array" ->
            [state |-> st,
             result |-> Err([tag |-> "UnexpectedStructure",
                             message |-> "array structure in update _set argument. Expecting an object."])]
      [] OTHER ->
            [state |-> st,
             result |-> Err([tag |-> "UnexpectedStructure",
                             message |-> "value structure in update _set argument. Expecting an object."])]

\* translate_json_value(..).unwrap(): the value, or a panic on Err.
UpdateKeyValueUnwrap(r) ==
    IF IsOk(r.result) THEN r
    ELSE [state |-> r.state,
          result |-> Panic("called Result::unwrap() on an Err value")]

\* An UPDATE that filters on the post-condition and returns the
\* pre-condition.
UpdateStatementChecksSwapped(mutation, set, unique_expression, pre_predicate_expression, post_predicate_expression) ==
    [schema |-> mutation.schema_name,
     table |-> mutation.table_name,
     set |-> set,
     where_ |-> ExprAnd(unique_expression, post_predicate_expression),
     returning |->
        SelectListComposite(
            SelectStar,
            SelectList(<<<<CheckConstraintAlias, pre_predicate_expression>>>>))]

\* The sql::ast::Update of translate: the WHERE clause joins the unique key
\* expression and the pre-condition, RETURNING carries the post-condition.
UpdateStatement(mutation, set, unique_expression, pre_predicate_expression, post_predicate_expression) ==
    [schema |-> mutation.schema_name,
     table |-> mutation.table_name,
     set |-> set,
     where_ |-> ExprAnd(unique_expression, pre_predicate_expression),
     returning |->
        SelectListComposite(
            SelectStar,
            SelectList(<<<<CheckConstraintAlias, post_predicate_expression>>>>))]

\* translate: UPDATE .. SET <_set> WHERE <key> = <value> AND <pre_check>
\* RETURNING *, <post_check> AS CHECK_CONSTRAINT
UpdateTranslate(st, mutation, arguments) ==
    LET object == MapGet(arguments, mutation.set_argument_name)
        unique_key == MapGet(arguments, mutation.by_column.name)
    IN  IF object = None
        THEN [state |-> st, result |-> ArgumentNotFound("_set")]
        ELSE
        Try(ParseSet(st, mutation, object.value),
            LAMBDA set :
        IF unique_key = None
        THEN [state |-> set.state, result |-> ArgumentNotFound(mutation.by_column.name)]
        ELSE
        Try(UpdateKeyValueUnwrap(
                TranslateJsonValue(set.state, unique_key.value, mutation.by_column.type)),
            LAMBDA key_value :
        Try(TranslatePredicateArgument(key_value.state, mutation, arguments,
                                       mutation.pre_check.argument_name),
            LAMBDA pre :
        Try(TranslatePredicateArgument(pre.state, mutation, arguments,
                                       mutation.post_check.argument_name),
            LAMBDA post :
        LET unique_expression ==
                BinaryOperation(
                    TableColumn(MutationTables(mutation).current_table.reference,
                                mutation.by_column.name),
                    "=", key_value.result.value)
        IN  [state |-> post.state,
             result |->
                Ok([update |-> UpdateStatement(mutation, set.result.value,
                                               unique_expression, pre.result.value,
                                               post.result.value),
                    check_constraint_alias |-> CheckConstraintAlias])]))))

(***************************************************************************)
(* The Env of a query (helpers.rs): the catalog the lookups read.          *)
(***************************************************************************)
FieldInfo(name, typ) == [name |-> name, type |-> typ]

QueryColumn(name, typ) ==
    ColumnInfo(name, typ, "Nullable", "NoDefault", "NotIdentity", "NotGenerated")

ArtistColumns ==
    ("id" :> QueryColumn("id", ScalarType("int4")))
    @@ ("big" :> QueryColumn("big", ScalarType("int8")))
    @@ ("address" :> QueryColumn("address", CompositeType("Address")))
    @@ ("addresses" :> QueryColumn("addresses", ArrayType(CompositeType("Address"))))
    @@ ("matrix" :> QueryColumn("matrix", ArrayType(ArrayType(ScalarType("int4")))))
    @@ ("tags" :> QueryColumn("tags", ArrayType(ScalarType("int8"))))

AlbumColumns ==
    ("id" :> QueryColumn("id", ScalarType("int4")))
    @@ ("title" :> QueryColumn("title", ScalarType("text")))

Metadata ==
    [tables |->
        ("Artist" :> TableInfo("public", "Artist", ArtistColumns, EmptyMap))
        @@ ("Album" :> TableInfo("public", "Album", AlbumColumns, EmptyMap)),
     native_queries |->
        ("artist_by_name" :> [columns |-> AlbumColumns]),
     composite_types |->
        ("Address" :>
            [name |-> "Address",
             fields |-> ("street" :> FieldInfo("street", ScalarType("text")))
                        @@ ("owner" :> FieldInfo("owner", CompositeType("Person")))])
        @@ ("Person" :>
            [name |-> "Person",
             fields |-> ("name" :> FieldInfo("name", ScalarType("text")))])]

\* The relationships of the request.
Relationships == ("ArtistAlbums" :> [target_collection |-> "Album"])

CollectionNotFound(n) == Err([tag |-> "CollectionNotFound", collection |-> n])

ColumnNotFoundInCollection(column, collection) ==
    Err([tag |-> "ColumnNotFoundInCollection", column |-> column,
         collection |-> collection])

RelationshipNotFound(n) == Err([tag |-> "RelationshipNotFound", relationship |-> n])

ProcedureNotFound(n) == Err([tag |-> "ProcedureNotFound", procedure |-> n])

OperatorNotFound(operator_name, type_name) ==
    Err([tag |-> "OperatorNotFound", operator_name |-> operator_name,
         type_name |-> type_name])

UnexpectedVariable == Err([tag |-> "UnexpectedVariable"])

\* A lookup_collection that asks the native queries before the tables.
EnvLookupCollectionNativeFirst(metadata, collection_name) ==
    IF collection_name \in DOMAIN metadata.native_queries
    THEN Ok([kind |-> "NativeQuery", name |-> collection_name,
             info |-> metadata.native_queries[collection_name]])
    ELSE IF collection_name \in DOMAIN metadata.tables
    THEN Ok([kind |-> "Table", name |-> collection_name,
             info |-> metadata.tables[collection_name]])
    ELSE CollectionNotFound(collection_name)

\* Env::lookup_collection: a table, else a native query, else an error.
EnvLookupCollection(metadata, collection_name) ==
    IF collection_name \in DOMAIN metadata.tables
    THEN Ok([kind |-> "Table", name |-> collection_name,
             info |-> metadata.tables[collection_name]])
    ELSE IF collection_name \in DOMAIN metadata.native_queries
    THEN Ok([kind |-> "NativeQuery", name |-> collection_name,
             info |-> metadata.native_queries[collection_name]])
    ELSE CollectionNotFound(collection_name)

\* The composite type of that name, when the collection lookup failed with
\* CollectionNotFound; any other outcome of the collection lookup stands.
ItsAType(metadata, type_name, it_is_a_collection) ==
    IF IsOk(it_is_a_collection)
    THEN Ok([kind |-> "CollectionInfo", info |-> it_is_a_collection.value])
    ELSE IF it_is_a_collection.error.tag # "CollectionNotFound"
    THEN it_is_a_collection
    ELSE IF type_name \in DOMAIN metadata.composite_types
    THEN Ok([kind |-> "CompositeTypeInfo",
             name |-> metadata.composite_types[type_name].name,
             info |-> metadata.composite_types[type_name]])
    ELSE CollectionNotFound(type_name)

\* Env::lookup_composite_type: a collection of that name, else a composite
\* type of that name.
EnvLookupCompositeType(metadata, type_name) ==
    ItsAType(metadata, type_name, EnvLookupCollection(metadata, type_name))

\* A lookup_native_query that reports the missing name as a collection.
EnvLookupNativeQueryAsCollection(metadata, procedure_name) ==
    IF procedure_name \in DOMAIN metadata.native_queries
    THEN Ok(metadata.native_queries[procedure_name])
    ELSE CollectionNotFound(procedure_name)

\* Env::lookup_native_query
EnvLookupNativeQuery(metadata, procedure_name) ==
    IF procedure_name \in DOMAIN metadata.native_queries
    THEN Ok(metadata.native_queries[procedure_name])
    ELSE ProcedureNotFound(procedure_name)

\* Env::lookup_relationship
EnvLookupRelationship(relationships, n) ==
    IF n \in DOMAIN relationships THEN Ok(relationships[n])
    ELSE RelationshipNotFound(n)

\* Env::lookup_comparison_operator: the operators of the scalar type, and
\* among them the operator of that name.
EnvLookupComparisonOperator(metadata, scalar_type, n) ==
    IF /\ scalar_type.name \in DOMAIN metadata.comparison_operators
       /\ n \in DOMAIN metadata.comparison_operators[scalar_type.name]
    THEN Ok(metadata.comparison_operators[scalar_type.name][n])
    ELSE OperatorNotFound(n, scalar_type)

\* Env::get_variables_table
GetVariablesTable(variables_table) ==
    IF variables_table = None THEN UnexpectedVariable ELSE Ok(variables_table.value)

\* lookup_collection in the catalog of the queries.
LookupCollection(collection_name) == EnvLookupCollection(Metadata, collection_name)

\* lookup_composite_type in the catalog of the queries.
LookupCompositeType(type_name) == EnvLookupCompositeType(Metadata, type_name)

\* CollectionInfo::lookup_column
CollectionLookupColumn(collection_info, column_name) ==
    IF column_name \in DOMAIN collection_info.info.columns
    THEN Ok([name |-> collection_info.info.columns[column_name].name,
             type |-> collection_info.info.columns[column_name].type])
    ELSE ColumnNotFoundInCollection(column_name, collection_info.name)

\* CompositeTypeInfo::lookup_column
CompositeLookupColumn(info, column_name) ==
    IF info.kind = "CollectionInfo"
    THEN CollectionLookupColumn(info.info, column_name)
    ELSE IF column_name \in DOMAIN info.info.fields
    THEN Ok([name |-> info.info.fields[column_name].name,
             type |-> info.info.fields[column_name].type])
    ELSE ColumnNotFoundInCollection(column_name, info.name)

\* The names of the fields of a composite type or of the columns of a
\* collection, in the order of their map.
FieldNames(info) ==
    IF info.kind = "CollectionInfo" THEN SortedSeq(DOMAIN info.info.info.columns)
    ELSE SortedSeq(DOMAIN info.info.fields)

\* Env::lookup_type_representation: the representation of a scalar type,
\* when the catalog gives one.
TypeRepresentations ==
    ("int8" :> "Int64AsString") @@ ("numeric" :> "BigDecimalAsString")
    @@ ("int4" :> "Int32") @@ ("bool" :> "Boolean") @@ ("varchar" :> "String")
    @@ ("float4" :> "Float32") @@ ("float8" :> "Float64") @@ ("int2" :> "Int16")
    @@ ("bigint" :> "Int64") @@ ("decimal" :> "BigDecimal")
    @@ ("timestamp" :> "Timestamp") @@ ("timestamptz" :> "Timestamptz")
    @@ ("time" :> "Time") @@ ("timetz" :> "Timetz") @@ ("date" :> "Date")
    @@ ("uuid" :> "UUID") @@ ("geography" :> "Geography")
    @@ ("geometry" :> "Geometry") @@ ("jsonb" :> "Json")
    @@ ("card_suit" :> "Enum")

LookupTypeRepresentation(scalar_type) == MapGet(TypeRepresentations, scalar_type.name)

(***************************************************************************)
(* Fields and nested fields (fields.rs).  A field selection is the         *)
(* sequence of its <<alias, field>> entries, in the order of the request.  *)
(***************************************************************************)
FieldColumn(column, fields) == [f |-> "Column", column |-> column, fields |-> fields]

FieldRelationship(query, relationship, arguments) ==
    [f |-> "Relationship", query |-> query, relationship |-> relationship,
     arguments |-> arguments]

NestedObject(fields) == [n |-> "Object", fields |-> fields]

NestedArray(fields) == [n |-> "Array", fields |-> fields]

LeftOuterJoinLateral(select, alias) ==
    [tag |-> "LeftOuterJoinLateral", select |-> select, alias |-> alias]

\* A translate_nested_field_joins that joins with an inner lateral join.
TranslateNestedFieldJoinsInner(joins) ==
    [i \in 1..Len(joins) |->
        [tag |-> "InnerJoinLateral", select |-> joins[i].select,
         alias |-> joins[i].alias]]

\* translate_nested_field_joins
TranslateNestedFieldJoins(joins) ==
    [i \in 1..Len(joins) |-> LeftOuterJoinLateral(joins[i].select, joins[i].alias)]

\* A get_type_representation_cast_type that also casts the 64-bit integers
\* and the big decimals that are represented as numbers.
GetTypeRepresentationCastTypeOfNumbers(type_representation) ==
    IF type_representation \in {"Int64AsString", "BigDecimalAsString", "Int64",
                                "BigDecimal"}
    THEN Some(ScalarTypeName("text"))
    ELSE None

\* get_type_representation_cast_type
GetTypeRepresentationCastType(type_representation) ==
    IF type_representation \in {"Int64AsString", "BigDecimalAsString"}
    THEN Some(ScalarTypeName("text"))
    ELSE None

\* wrap_in_type_representation
WrapInTypeRepresentation(expression, column_type_representation) ==
    IF column_type_representation = None THEN expression
    ELSE LET cast_type == GetTypeRepresentationCastType(column_type_representation.value)
         IN  IF cast_type # None THEN Cast(expression, cast_type.value)
             ELSE expression

\* wrap_array_in_type_representation
WrapArrayInTypeRepresentation(expression, column_type_representation) ==
    IF column_type_representation = None THEN expression
    ELSE LET cast_type == GetTypeRepresentationCastType(column_type_representation.value)
         IN  IF cast_type # None
             THEN Cast(expression, [cast_type.value EXCEPT !.is_array = TRUE])
             ELSE expression

\* unpack_composite_type: the nested field that selects every field of the
\* composite type, one level deep.
UnpackCompositeType(composite_type) ==
    LET info == LookupCompositeType(composite_type)
    IN  IF ~IsOk(info) THEN info
        ELSE LET names == FieldNames(info.value)
             IN  Ok(NestedObject([i \in 1..Len(names) |->
                                     <<names[i], FieldColumn(names[i], None)>>]))

\* A match of translate_nested_field that reports a column that is not an
\* array as not composite, and a column that is not composite as not an
\* array.
NestedFieldPartsErrorsSwapped(nested_fields_alias, current_table, current_column, field) ==
    LET column_reference ==
            AliasedColumn(current_table.reference, ColumnAlias(current_column.name))
        not_composite(t) ==
            Err([tag |-> "NestedFieldNotOfArrayType",
                 field_name |-> current_column.name, actual_type |-> t])
    IN  CASE field.n = "Object" ->
                IF current_column.type.t = "CompositeType"
                THEN Ok([collect_expression |->
                            RowToJson(AliasedTable(nested_fields_alias)),
                         field_binding_expression |-> column_reference,
                         nested_field_type_name |-> current_column.type.name,
                         fields |-> field.fields])
                ELSE not_composite(current_column.type)
          [] field.n = "Array" /\ field.fields.n = "Array" ->
                Err([tag |-> "NestedArraysNotSupported",
                     field_name |-> current_column.name])
          [] field.n = "Array" /\ field.fields.n = "Object" ->
                IF current_column.type.t # "ArrayType"
                THEN Err([tag |-> "NestedFieldNotOfCompositeType",
                          field_name |-> current_column.name,
                          actual_type |-> current_column.type])
                ELSE IF current_column.type.elem.t # "CompositeType"
                THEN not_composite(current_column.type.elem)
                ELSE Ok([collect_expression |->
                            FunctionCall("json_agg",
                                <<RowToJson(AliasedTable(nested_fields_alias))>>),
                         field_binding_expression |->
                            FunctionCall("unnest", <<column_reference>>),
                         nested_field_type_name |-> current_column.type.elem.name,
                         fields |-> field.fields.fields])

\* The match of translate_nested_field on the kind of nested field: the
\* collect expression, the field binding expression, the type of the
\* nested value and its fields.
NestedFieldParts(nested_fields_alias, current_table, current_column, field) ==
    LET column_reference ==
            AliasedColumn(current_table.reference, ColumnAlias(current_column.name))
        not_composite(t) ==
            Err([tag |-> "NestedFieldNotOfCompositeType",
                 field_name |-> current_column.name, actual_type |-> t])
    IN  CASE field.n = "Object" ->
                IF current_column.type.t = "CompositeType"
                THEN Ok([collect_expression |->
                            RowToJson(AliasedTable(nested_fields_alias)),
                         field_binding_expression |-> column_reference,
                         nested_field_type_name |-> current_column.type.name,
                         fields |-> field.fields])
                ELSE not_composite(current_column.type)
          [] field.n = "Array" /\ field.fields.n = "Array" ->
                Err([tag |-> "NestedArraysNotSupported",
                     field_name |-> current_column.name])
          [] field.n = "Array" /\ field.fields.n = "Object" ->
                IF current_column.type.t # "ArrayType"
                THEN Err([tag |-> "NestedFieldNotOfArrayType",
                          field_name |-> current_column.name,
                          actual_type |-> current_column.type])
                ELSE IF current_column.type.elem.t # "CompositeType"
                THEN not_composite(current_column.type.elem)
                ELSE Ok([collect_expression |->
                            FunctionCall("json_agg",
                                <<RowToJson(AliasedTable(nested_fields_alias))>>),
                         field_binding_expression |->
                            FunctionCall("unnest", <<column_reference>>),
                         nested_field_type_name |-> current_column.type.elem.name,
                         fields |-> field.fields.fields])

\* A step of the field translation that failed or produced `value`: the
\* State and the relationship joins collected so far travel with it.
Step(st, joins, res) == [state |-> st, joins |-> joins, result |-> res]

\* The column of a nested field selection and the join that computes it;
\* `nested_field` is the nested field to translate, or the error of
\* building it.
RECURSIVE TranslateNestedField(_, _, _, _, _)
RECURSIVE TranslateFields(_, _, _, _)
NestedColumn(st, joins, current_table, alias, column_info, nested_field) ==
    IF ~IsOk(nested_field) THEN Step(st, joins, nested_field)
    ELSE Try(TranslateNestedField(st, joins, current_table, column_info,
                                  nested_field.value),
             LAMBDA r :
                 [r EXCEPT !.result =
                     Ok([column |-> <<alias, r.result.value.reference>>,
                         nested_field_joins |-> <<r.result.value.join>>])])

\* A match of unpack_and_wrap_fields that reads an array of arrays as the
\* bare column.
UnpackAndWrapColumnCollapsing(st, joins, current_table, column, alias, column_info) ==
    CASE column_info.type.t = "ScalarType" ->
            Step(st, joins,
                 Ok([column |->
                        <<alias,
                          WrapInTypeRepresentation(
                              TableColumn(current_table.reference, column_info.name),
                              LookupTypeRepresentation(column_info.type))>>,
                     nested_field_joins |-> <<>>]))
      [] column_info.type.t = "CompositeType" ->
            NestedColumn(st, joins, current_table, alias, column_info,
                         UnpackCompositeType(column_info.type.name))
      [] column_info.type.t = "ArrayType" /\ column_info.type.elem.t = "ArrayType" ->
            Step(st, joins,
                 Ok([column |->
                        <<alias, TableColumn(current_table.reference, column_info.name)>>,
                     nested_field_joins |-> <<>>]))
      [] column_info.type.t = "ArrayType" /\ column_info.type.elem.t = "CompositeType" ->
            LET unpacked == UnpackCompositeType(column_info.type.elem.name)
            IN  NestedColumn(st, joins, current_table, alias, column_info,
                             IF IsOk(unpacked) THEN Ok(NestedArray(unpacked.value))
                             ELSE unpacked)
      [] column_info.type.t = "ArrayType" /\ column_info.type.elem.t = "ScalarType" ->
            Step(st, joins,
                 Ok([column |->
                        <<alias,
                          WrapArrayInTypeRepresentation(
                              TableColumn(current_table.reference, column_info.name),
                              LookupTypeRepresentation(column_info.type.elem))>>,
                     nested_field_joins |-> <<>>]))

\* The match of unpack_and_wrap_fields on the type of the column.
UnpackAndWrapColumn(st, joins, current_table, column, alias, column_info) ==
    CASE column_info.type.t = "ScalarType" ->
            Step(st, joins,
                 Ok([column |->
                        <<alias,
                          WrapInTypeRepresentation(
                              TableColumn(current_table.reference, column_info.name),
                              LookupTypeRepresentation(column_info.type))>>,
                     nested_field_joins |-> <<>>]))
      [] column_info.type.t = "CompositeType" ->
            NestedColumn(st, joins, current_table, alias, column_info,
                         UnpackCompositeType(column_info.type.name))
      [] column_info.type.t = "ArrayType" /\ column_info.type.elem.t = "ArrayType" ->
            Step(st, joins,
                 Err([tag |-> "NestedArraysNotSupported", field_name |-> column]))
      [] column_info.type.t = "ArrayType" /\ column_info.type.elem.t = "CompositeType" ->
            LET unpacked == UnpackCompositeType(column_info.type.elem.name)
            IN  NestedColumn(st, joins, current_table, alias, column_info,
                             IF IsOk(unpacked) THEN Ok(NestedArray(unpacked.value))
                             ELSE unpacked)
      [] column_info.type.t = "ArrayType" /\ column_info.type.elem.t = "ScalarType" ->
            Step(st, joins,
                 Ok([column |->
                        <<alias,
                          WrapArrayInTypeRepresentation(
                              TableColumn(current_table.reference, column_info.name),
                              LookupTypeRepresentation(column_info.type.elem))>>,
                     nested_field_joins |-> <<>>]))

\* unpack_and_wrap_fields
UnpackAndWrapFields(st, joins, current_table, column, alias, fields_info) ==
    LET column_info == CompositeLookupColumn(fields_info, column)
    IN  IF ~IsOk(column_info) THEN Step(st, joins, column_info)
        ELSE UnpackAndWrapColumn(st, joins, current_table, column, alias,
                                 column_info.value)

\* The closure of translate_fields on one <<alias, field>> entry.
TranslateField(st, joins, alias, field, current_table, fields_info) ==
    CASE field.f = "Column" /\ field.fields = None ->
            UnpackAndWrapFields(st, joins, current_table, field.column,
                                ColumnAlias(alias), fields_info)
      [] field.f = "Column" /\ field.fields # None ->
            LET column_info == CompositeLookupColumn(fields_info, field.column)
            IN  IF ~IsOk(column_info) THEN Step(st, joins, column_info)
                ELSE NestedColumn(st, joins, current_table, ColumnAlias(alias),
                                  column_info.value, Ok(field.fields.value))
      [] field.f = "Relationship" ->
            LET a == MakeRelationshipTableAlias(st, alias)
                column_alias == ColumnAlias(alias)
            IN  Step(a.state,
                     Append(joins, [table_alias |-> a.alias,
                                    column_alias |-> column_alias,
                                    relationship_name |-> field.relationship,
                                    arguments |-> field.arguments,
                                    query |-> field.query]),
                     Ok([column |->
                            <<column_alias,
                              AliasedColumn(AliasedTable(a.alias), column_alias)>>,
                         nested_field_joins |-> <<>>]))

\* The map of translate_fields over the entries from entry i on, stopping
\* at the first error.
RECURSIVE FieldsFrom(_, _, _, _, _, _, _, _)
FieldsFrom(st, joins, fields, i, current_table, fields_info, columns, nested_field_joins) ==
    IF i > Len(fields)
    THEN Step(st, joins, Ok([columns |-> columns,
                             nested_field_joins |-> nested_field_joins]))
    ELSE Try(TranslateField(st, joins, fields[i][1], fields[i][2], current_table,
                            fields_info),
             LAMBDA r :
                 FieldsFrom(r.state, r.joins, fields, i + 1, current_table,
                            fields_info,
                            Append(columns, r.result.value.column),
                            nested_field_joins \o r.result.value.nested_field_joins))

\* translate_fields
TranslateFields(st, joins, fields, current_table) ==
    LET fields_info == LookupCompositeType(current_table.name)
    IN  IF ~IsOk(fields_info) THEN Step(st, joins, fields_info)
        ELSE Try(FieldsFrom(st, joins, fields, 1, current_table, fields_info.value,
                            <<>>, <<>>),
                 LAMBDA r :
                     [r EXCEPT !.result =
                         Ok([SimpleSelect(r.result.value.columns) EXCEPT !.joins =
                                TranslateNestedFieldJoins(
                                    r.result.value.nested_field_joins)])])

\* translate_nested_field: three aliases (nested_fields,
\* nested_field_binding, nested_fields_collect) around the select of the
\* next layer of fields.
TranslateNestedField(st, joins, current_table, current_column, field) ==
    LET nested_field_column_collect_alias == ColumnAlias("collected")
        a == MakeTableAlias(st, "nested_fields")
        parts == NestedFieldParts(a.alias, current_table, current_column, field)
        b == MakeTableAlias(a.state, "nested_field_binding")
        nested_field_from ==
            FromSelect(SelectComposite(parts.value.field_binding_expression), b.alias)
        nested_field_table_reference ==
            TableNameAndReference(parts.value.nested_field_type_name,
                                  AliasedTable(b.alias))
    IN  IF ~IsOk(parts) THEN Step(a.state, joins, parts)
        ELSE
        Try(TranslateFields(b.state, joins, parts.value.fields,
                            nested_field_table_reference),
            LAMBDA r :
            LET fields_select == [r.result.value EXCEPT !.from = Some(nested_field_from)]
                collect_select ==
                    [SimpleSelect(<<<<nested_field_column_collect_alias,
                                      parts.value.collect_expression>>>>)
                        EXCEPT !.from = Some(FromSelect(fields_select, a.alias))]
                c == MakeTableAlias(r.state, "nested_fields_collect")
            IN  Step(c.state, r.joins,
                     Ok([join |-> [select |-> collect_select, alias |-> c.alias],
                         reference |->
                            AliasedColumn(AliasedTable(c.alias),
                                          nested_field_column_collect_alias)])))

(***************************************************************************)
(* Rows and aggregates (root.rs)                                           *)
(***************************************************************************)

\* make_from_clause: a table is read under the alias; a native query is
\* pushed on the State and read, by its own alias, under the alias.
MakeFromClause(st, current_table_alias, collection_info, arguments) ==
    IF collection_info.kind = "Table"
    THEN [state |-> st,
          value |-> FromTable(DBTable(collection_info.info.schema_name,
                                      collection_info.info.table_name),
                              current_table_alias)]
    ELSE LET aliased_table == InsertNativeQuery(st, collection_info.name,
                                                collection_info.info, arguments)
         IN  [state |-> aliased_table.state,
              value |-> FromTable(aliased_table.value, current_table_alias)]

\* make_from_clause_and_reference: the alias is the caller's, or a fresh
\* one named after the collection, made before the collection is looked up.
MakeFromClauseAndReference(st, collection_name, arguments, collection_alias) ==
    LET a == IF collection_alias = None
             THEN MakeTableAlias(st, collection_name)
             ELSE [state |-> st, alias |-> collection_alias.value]
        collection_info == LookupCollection(collection_name)
        from_clause == MakeFromClause(a.state, a.alias, collection_info.value,
                                      arguments)
    IN  IF ~IsOk(collection_info)
        THEN [state |-> a.state, result |-> collection_info]
        ELSE [state |-> from_clause.state,
              result |->
                 Ok([current_table |->
                        TableNameAndReference(collection_name, AliasedTable(a.alias)),
                     from_clause |-> from_clause.value])]

\* lookup_relationship among the relationships of the request.
LookupRelationship(n) == EnvLookupRelationship(Relationships, n)

\* models::ExistsInCollection
Unrelated(collection) ==
    [tag |-> "Unrelated", collection |-> collection, arguments |-> <<>>]

Related(relationship) ==
    [tag |-> "Related", relationship |-> relationship, arguments |-> <<>>]

\* A unary comparison whose target is ComparisonTarget::RootCollectionColumn:
\* the column is looked up in the collection of the root table and read
\* from the root table's reference.
TranslateRootCollectionColumn(st, tables, column) ==
    LET collection_info == LookupCollection(tables.root_table.name)
        column_info == CollectionLookupColumn(collection_info.value, column)
    IN  IF ~IsOk(collection_info) THEN [state |-> st, result |-> collection_info]
        ELSE IF ~IsOk(column_info) THEN [state |-> st, result |-> column_info]
        ELSE [state |-> st,
              result |->
                 Ok([tag |-> "UnaryOperation", operator |-> "IS NULL",
                     expression |-> TableColumn(tables.root_table.reference,
                                                column_info.value.name)])]

\* Exists: the collection named (the target of the relationship, for a
\* related collection) gets a fresh alias and becomes the current table,
\* the root table stays, and the predicate becomes the where clause of
\* SELECT 1 AS one FROM <collection>.
TranslateExistsInCollection(st, tables, in_collection, predicate) ==
    LET relationship == IF in_collection.tag = "Related"
                        THEN LookupRelationship(in_collection.relationship)
                        ELSE Ok([target_collection |-> in_collection.collection])
    IN  IF ~IsOk(relationship) THEN [state |-> st, result |-> relationship]
        ELSE
        Try(MakeFromClauseAndReference(st, relationship.value.target_collection,
                                       in_collection.arguments, None),
            LAMBDA r :
            Try(TranslateExpression(
                    r.state,
                    LookupCollection(r.result.value.current_table.name).value.info.columns,
                    RootAndCurrentTables(tables.root_table,
                                         r.result.value.current_table),
                    predicate),
                LAMBDA e :
                    [state |-> e.state,
                     result |->
                        Ok(ExprExists(
                               [SimpleSelect(<<<<ColumnAlias("one"),
                                                ExprValue(ValueInt4(1))>>>>)
                                   EXCEPT !.from = Some(r.result.value.from_clause),
                                          !.where_ = e.result.value]))]))

\* sorting::translate_order_by on one element.  A column of the current
\* table is ordered by directly.  A column behind a relationship is read
\* in a lateral join: the target collection is given an ORDER_PART_ alias
\* that is handed to make_from_clause_and_reference, and the join is
\* aliased ORDER_FOR_ the current table.
TranslateOrderByElement(st, tables, element) ==
    IF element.path = <<>>
    THEN LET collection_info == LookupCollection(tables.current_table.name)
             column_info == CollectionLookupColumn(collection_info.value,
                                                   element.column)
         IN  IF ~IsOk(collection_info) THEN [state |-> st, result |-> collection_info]
             ELSE IF ~IsOk(column_info) THEN [state |-> st, result |-> column_info]
             ELSE [state |-> st,
                   result |->
                      Ok([order_by |->
                             <<[target |-> TableColumn(tables.current_table.reference,
                                                       column_info.value.name),
                                direction |-> element.direction]>>,
                          joins |-> <<>>])]
    ELSE LET relationship == LookupRelationship(element.path[1])
             part == MakeOrderPathPartTableAlias(st, relationship.value.target_collection)
         IN  IF ~IsOk(relationship) THEN [state |-> st, result |-> relationship]
             ELSE
             Try(MakeFromClauseAndReference(part.state,
                                            relationship.value.target_collection,
                                            <<>>, Some(part.alias)),
                 LAMBDA r :
                 LET column_info ==
                         CollectionLookupColumn(
                             LookupCollection(r.result.value.current_table.name).value,
                             element.column)
                     for == MakeOrderByTableAlias(r.state, tables.current_table.name)
                     column_alias == ColumnAlias(element.column)
                     select ==
                         [SimpleSelect(<<<<column_alias,
                                           TableColumn(
                                               r.result.value.current_table.reference,
                                               column_info.value.name)>>>>)
                             EXCEPT !.from = Some(r.result.value.from_clause)]
                 IN  IF ~IsOk(column_info) THEN [state |-> r.state, result |-> column_info]
                     ELSE [state |-> for.state,
                           result |->
                              Ok([order_by |->
                                     <<[target |-> AliasedColumn(AliasedTable(for.alias),
                                                                 column_alias),
                                        direction |-> element.direction]>>,
                                  joins |-> <<LeftOuterJoinLateral(select, for.alias)>>])])

\* The elements of an order_by from element i on, in order.
RECURSIVE OrderByFrom(_, _, _, _, _, _)
OrderByFrom(st, tables, elements, i, order_by, joins) ==
    IF i > Len(elements)
    THEN [state |-> st, result |-> Ok([order_by |-> order_by, joins |-> joins])]
    ELSE Try(TranslateOrderByElement(st, tables, elements[i]),
             LAMBDA r :
                 OrderByFrom(r.state, tables, elements, i + 1,
                             order_by \o r.result.value.order_by,
                             joins \o r.result.value.joins))

\* sorting::translate_order_by
TranslateOrderBy(st, tables, order_by) ==
    IF order_by = None
    THEN [state |-> st, result |-> Ok([order_by |-> <<>>, joins |-> <<>>])]
    ELSE OrderByFrom(st, tables, order_by.value, 1, <<>>, <<>>)

\* aggregates::translate: one select-list column per aggregate.
AggregatesTranslate(reference, aggregate_fields) ==
    Ok([i \in 1..Len(aggregate_fields) |->
           <<ColumnAlias(aggregate_fields[i][1]),
             IF aggregate_fields[i][2].a = "StarCount"
             THEN FunctionCall("COUNT", <<[tag |-> "Star"]>>)
             ELSE FunctionCall("COUNT",
                      <<TableColumn(reference, aggregate_fields[i][2].column)>>)>>])

\* The where clause of translate_query_part: TRUE without a predicate, and
\* no joins for the predicates over the columns of the current table.
TranslateFilter(st, tables, predicate) ==
    IF predicate = None
    THEN [state |-> st, result |-> Ok([filter |-> TrueExpr, joins |-> <<>>])]
    ELSE Try(TranslateExpression(
                 st, LookupCollection(tables.current_table.name).value.info.columns,
                 tables, predicate.value),
             LAMBDA r :
                 [state |-> r.state,
                  result |-> Ok([filter |-> r.result.value, joins |-> <<>>])])

RECURSIVE TranslateJoins(_, _, _)

\* A translate_query_part whose root table is the table by its database
\* name, not the current table under its alias.
TranslateQueryPartRootByName(st, current_table, query, select, join_relationship_fields) ==
    LET root_and_current_tables == RootAndCurrentTables(
            TableNameAndReference(current_table.name,
                                  DBTable("public", current_table.name)),
            current_table)
    IN  Try(TranslateOrderBy(st, root_and_current_tables, query.order_by),
            LAMBDA o :
            Try(TranslateFilter(o.state, root_and_current_tables, query.predicate),
                LAMBDA f :
                Try(TranslateJoins(f.state, root_and_current_tables,
                                   join_relationship_fields),
                    LAMBDA j :
                        [state |-> j.state,
                         result |->
                            Ok([select EXCEPT
                                   !.joins = @ \o o.result.value.joins
                                               \o j.result.value
                                               \o f.result.value.joins,
                                   !.where_ = f.result.value.filter,
                                   !.order_by = o.result.value.order_by])])))

\* A translate_query_part that joins the relationships of the fields before
\* it translates the order by and the filter.
TranslateQueryPartJoinsFirst(st, current_table, query, select, join_relationship_fields) ==
    LET root_and_current_tables == RootAndCurrentTables(current_table, current_table)
    IN  Try(TranslateJoins(st, root_and_current_tables, join_relationship_fields),
            LAMBDA j :
            Try(TranslateOrderBy(j.state, root_and_current_tables, query.order_by),
                LAMBDA o :
                Try(TranslateFilter(o.state, root_and_current_tables, query.predicate),
                    LAMBDA f :
                        [state |-> f.state,
                         result |->
                            Ok([select EXCEPT
                                   !.joins = @ \o o.result.value.joins
                                               \o j.result.value
                                               \o f.result.value.joins,
                                   !.where_ = f.result.value.filter,
                                   !.order_by = o.result.value.order_by])])))

\* translate_query_part: the joins of the order by, of the relationships
\* and of the filter are added to the select in that order.
TranslateQueryPart(st, current_table, query, select, join_relationship_fields) ==
    LET root_and_current_tables == RootAndCurrentTables(current_table, current_table)
    IN  Try(TranslateOrderBy(st, root_and_current_tables, query.order_by),
            LAMBDA o :
            Try(TranslateFilter(o.state, root_and_current_tables, query.predicate),
                LAMBDA f :
                Try(TranslateJoins(f.state, root_and_current_tables,
                                   join_relationship_fields),
                    LAMBDA j :
                        [state |-> j.state,
                         result |->
                            Ok([select EXCEPT
                                   !.joins = @ \o o.result.value.joins
                                               \o j.result.value
                                               \o f.result.value.joins,
                                   !.where_ = f.result.value.filter,
                                   !.order_by = o.result.value.order_by])])))

\* A translate_rows_query for which an empty map of fields counts as
\* fields requested.
TranslateRowsQueryOfSomeFields(st, current_table, from_clause, query) ==
    LET fields == IF query.fields = None THEN <<>> ELSE query.fields.value
        returns_fields == IF query.fields = None THEN "NoFieldsWereRequested"
                          ELSE "FieldsWereRequested"
    IN  Try(TranslateFields(st, <<>>, fields, current_table),
            LAMBDA f :
            Try(TranslateQueryPart(f.state, current_table, query, f.result.value,
                                   f.joins),
                LAMBDA q :
                    [state |-> q.state,
                     result |->
                        Ok([returns_fields |-> returns_fields,
                            select |->
                               [q.result.value EXCEPT
                                   !.from = Some(from_clause),
                                   !.limit = [limit |-> query.limit,
                                              offset |-> query.offset]]])]))

\* A translate_aggregate_query that keeps the order by of the query part.
TranslateAggregateQueryOrdered(st, current_table, from_clause, query) ==
    IF query.aggregates = None THEN [state |-> st, result |-> Ok(None)]
    ELSE LET aggregate_columns ==
                 AggregatesTranslate(current_table.reference, query.aggregates.value)
         IN  IF ~IsOk(aggregate_columns)
             THEN [state |-> st, result |-> aggregate_columns]
             ELSE
             Try(TranslateQueryPart(st, current_table, query,
                                    SimpleSelect(aggregate_columns.value), <<>>),
                 LAMBDA q :
                     [state |-> q.state,
                      result |->
                         Ok(Some([q.result.value EXCEPT
                                     !.from = Some(from_clause)]))])

\* translate_rows_query
TranslateRowsQuery(st, current_table, from_clause, query) ==
    LET fields == IF query.fields = None THEN <<>> ELSE query.fields.value
        returns_fields == IF fields = <<>> THEN "NoFieldsWereRequested"
                          ELSE "FieldsWereRequested"
    IN  Try(TranslateFields(st, <<>>, fields, current_table),
            LAMBDA f :
            Try(TranslateQueryPart(f.state, current_table, query, f.result.value,
                                   f.joins),
                LAMBDA q :
                    [state |-> q.state,
                     result |->
                        Ok([returns_fields |-> returns_fields,
                            select |->
                               [q.result.value EXCEPT
                                   !.from = Some(from_clause),
                                   !.limit = [limit |-> query.limit,
                                              offset |-> query.offset]]])]))

\* translate_aggregate_query: nothing without aggregates; otherwise the
\* aggregate columns over the same query part, with the order by removed
\* and the same from clause.
TranslateAggregateQuery(st, current_table, from_clause, query) ==
    IF query.aggregates = None THEN [state |-> st, result |-> Ok(None)]
    ELSE LET aggregate_columns ==
                 AggregatesTranslate(current_table.reference, query.aggregates.value)
         IN  IF ~IsOk(aggregate_columns)
             THEN [state |-> st, result |-> aggregate_columns]
             ELSE
             Try(TranslateQueryPart(st, current_table, query,
                                    SimpleSelect(aggregate_columns.value), <<>>),
                 LAMBDA q :
                     [state |-> q.state,
                      result |->
                         Ok(Some([q.result.value EXCEPT
                                     !.order_by = <<>>,
                                     !.from = Some(from_clause)]))])

\* relationships::translate_joins from join field i on: the rows of the
\* relationship's query over its target collection, in a lateral join
\* under the alias made for the field.
RECURSIVE JoinsFrom(_, _, _, _)
JoinsFrom(st, join_fields, i, joins) ==
    IF i > Len(join_fields) THEN [state |-> st, result |-> Ok(joins)]
    ELSE LET relationship == LookupRelationship(join_fields[i].relationship_name)
         IN  IF ~IsOk(relationship) THEN [state |-> st, result |-> relationship]
             ELSE
             Try(MakeFromClauseAndReference(st, relationship.value.target_collection,
                                            join_fields[i].arguments, None),
                 LAMBDA r :
                 Try(TranslateRowsQuery(r.state, r.result.value.current_table,
                                        r.result.value.from_clause,
                                        join_fields[i].query),
                     LAMBDA q :
                         JoinsFrom(q.state, join_fields, i + 1,
                                   Append(joins,
                                          LeftOuterJoinLateral(
                                              q.result.value.select,
                                              join_fields[i].table_alias)))))

TranslateJoins(st, tables, join_fields) == JoinsFrom(st, join_fields, 1, <<>>)

\* query::translate: a new State, the variables table, the from clause of
\* the collection under a fresh alias, then the rows and the aggregates
\* over that from clause.
TranslateQuery(query_request) ==
    LET variables_from == MakeVariablesTable(StateNew, query_request.variables)
    IN  Try(MakeFromClauseAndReference(variables_from.state,
                                       query_request.collection,
                                       query_request.arguments, None),
            LAMBDA c :
            Try(TranslateRowsQuery(c.state, c.result.value.current_table,
                                   c.result.value.from_clause, query_request.query),
                LAMBDA r :
                Try(TranslateAggregateQuery(r.state, c.result.value.current_table,
                                            c.result.value.from_clause,
                                            query_request.query),
                    LAMBDA a :
                        [state |-> a.state,
                         result |->
                            Ok([variables_from |-> variables_from.value,
                                from_clause |-> c.result.value.from_clause,
                                rows |-> r.result.value.select,
                                returns_fields |-> r.result.value.returns_fields,
                                aggregates |-> a.result.value])])))

(***************************************************************************)
(* SpecState: one State, driven by any sequence of its alias-allocating    *)
(* operations.                                                             *)
(***************************************************************************)
HintNames == {"Artist", "Album"}

NativeQueryNames == {"artist_by_name"}

VariablesInputs == {None, Some(<<>>), Some(<<"v1">>)}

NativeQueryArguments == {<<>>, <<"x">>}

InitState ==
    /\ state = StateDefault
    /\ issued = <<>>
    /\ op = "new"
    /\ request = None
    /\ result = None
    /\ previous = None
    /\ runtime = None

\* One allocation through `make`, one of the alias constructors.
Allocate(name, made, hint) ==
    /\ state.global_table_index < MaxAliases
    /\ state' = made.state
    /\ issued' = Append(issued, made.alias)
    /\ op' = name
    /\ request' = Some(hint)
    /\ result' = Some(made.alias)
    /\ UNCHANGED <<previous, runtime>>

DoMakeTableAlias ==
    \E n \in HintNames : Allocate("make_table_alias", MakeTableAlias(state, n), n)

DoMakeRelationshipTableAlias ==
    \E n \in HintNames :
        Allocate("make_relationship_table_alias",
                 MakeRelationshipTableAlias(state, n), n)

DoMakeOrderPathPartTableAlias ==
    \E n \in HintNames :
        Allocate("make_order_path_part_table_alias",
                 MakeOrderPathPartTableAlias(state, n), n)

DoMakeOrderByTableAlias ==
    \E n \in HintNames :
        Allocate("make_order_by_table_alias", MakeOrderByTableAlias(state, n), n)

DoMakeNativeQueryTableAlias ==
    \E n \in NativeQueryNames :
        Allocate("make_native_query_table_alias",
                 MakeNativeQueryTableAlias(state, n), n)

DoMakeBooleanExpressionTableAlias ==
    \E n \in HintNames :
        Allocate("make_boolean_expression_table_alias",
                 MakeBooleanExpressionTableAlias(state, n), n)

DoMakeVariablesTable ==
    \E v \in VariablesInputs :
        LET r == MakeVariablesTable(state, v)
        IN  /\ state.global_table_index < MaxAliases
            /\ state' = r.state
            /\ issued' = IF r.value = None THEN issued
                         ELSE Append(issued, r.value.value.reference.alias)
            /\ op' = "make_variables_table"
            /\ request' = v
            /\ result' = r.value
            /\ UNCHANGED <<previous, runtime>>

DoInsertNativeQuery ==
    \E n \in NativeQueryNames, args \in NativeQueryArguments :
        LET r == InsertNativeQuery(state, n, n, args)
        IN  /\ state.global_table_index < MaxAliases
            /\ state' = r.state
            /\ issued' = Append(issued, r.value.alias)
            /\ op' = "insert_native_query"
            /\ request' = Some(<<n, args>>)
            /\ result' = Some(r.value)
            /\ UNCHANGED <<previous, runtime>>

NextState ==
    \/ DoMakeTableAlias
    \/ DoMakeRelationshipTableAlias
    \/ DoMakeOrderPathPartTableAlias
    \/ DoMakeOrderByTableAlias
    \/ DoMakeNativeQueryTableAlias
    \/ DoMakeBooleanExpressionTableAlias
    \/ DoMakeVariablesTable
    \/ DoInsertNativeQuery

SpecState == InitState /\ [][NextState]_vars

(***************************************************************************)
(* C1.  Within one translation (one State made by State::new) the          *)
(* unique_index values handed out by the alias-allocating operations are   *)
(* 0, 1, 2, ... in the order they were handed out: strictly increasing     *)
(* from 0, and none returned twice.                                        *)
(***************************************************************************)
C1_IndicesStrictlyIncreasing ==
    /\ \A i \in 1..Len(issued) : issued[i].unique_index = i - 1
    /\ \A i, j \in 1..Len(issued) :
           i < j => issued[i].unique_index < issued[j].unique_index
    /\ state.global_table_index = Len(issued)

\* Three aliases were handed out, by different kinds of operation, among
\* them the variables table and a native query.
C1_Witness ==
    /\ Len(issued) = 3
    /\ \E i \in 1..3 : issued[i].name = "%variables_table"
    /\ Len(state.native_queries) >= 1
    /\ \E i \in 1..3 : issued[i].name = "RELATIONSHIP_Album"


(***************************************************************************)
(* SpecMutation: one mutation request against the collection "t", drawn    *)
(* in the initial state, translated from a fresh State; the same request   *)
(* is then translated once more, as a connector serving it again would.    *)
(***************************************************************************)
MaxObjects == 2

\* Column "a" under every combination of its flags a catalog can hold: an
\* identity column is never a generated one.
AColumns ==
    {ColumnInfo("a", ScalarType("text"), n, d, ig[1], ig[2]) :
        n \in {"Nullable", "NonNullable"},
        d \in {"NoDefault", "HasDefault"},
        ig \in {<<"NotIdentity", "NotGenerated">>, <<"NotIdentity", "Stored">>,
                <<"IdentityByDefault", "NotGenerated">>,
                <<"IdentityAlways", "NotGenerated">>}}

BColumns ==
    {ColumnInfo("b", ScalarType("int4"), "NonNullable", "NoDefault",
                "NotIdentity", "NotGenerated"),
     ColumnInfo("b", ArrayType(ScalarType("text")), "Nullable", "NoDefault",
                "NotIdentity", "NotGenerated")}

UniquenessInputs ==
    LET sets == (SUBSET {"a", "b"}) \ {{}}
    IN  {EmptyMap} \cup {("pk" :> s) : s \in sets} \cup {("uq" :> s) : s \in sets}
        \cup {("pk" :> s) @@ ("uq" :> u) : s \in sets, u \in sets}

PrimaryKeyOnA == ("pk" :> {"a"})

MutationTableInputs(uniqueness) ==
    {TableInfo("public", "t", ("a" :> ca) @@ ("b" :> cb), u) :
        ca \in AColumns, cb \in BColumns, u \in uniqueness}

\* A number serde_json cannot give as an f64.
JBigNumber == JNumber(None)

ObjectInputs ==
    {JObject(<<>>),
     JObject(<< <<"a", JString("x")>> >>),
     JObject(<< <<"b", JNumber(Some(1))>> >>),
     JObject(<< <<"a", JString("x")>>, <<"b", JNumber(Some(1))>> >>),
     JObject(<< <<"b", JArray(<<JString("p")>>)>>, <<"a", JNull>> >>),
     JObject(<< <<"b", JNumber(Some(1))>>, <<"zz", JBool(TRUE)>> >>),
     JObject(<< <<"b", JBigNumber>> >>),
     JArray(<<>>),
     JString("s")}

ObjectsInputs ==
    {JArray(s) : s \in UNION {[1..n -> ObjectInputs] : n \in 0..MaxObjects}}
    \cup {JObject(<<>>), JString("s")}

KeyInputs == {JString("k"), JNumber(Some(1)), JBigNumber}

OptionOf(S) == {None} \cup {Some(v) : v \in S}

\* An argument map with the entry, when the argument is given.
Arg(name, v) == IF v = None THEN EmptyMap ELSE (name :> v.value)

InsertArguments ==
    OptionOf({PredAnd(<<>>), PredNot(PredIsNull("a")), PredIsNull("yy"), JString("s")})

PreCheckInputs == OptionOf({PredAnd(<<>>), PredIsNull("b"), PredIsNull("zz")})

PostCheckInputs == OptionOf({PredNot(PredIsNull("a")), PredIsNull("b"), JString("s")})

InsertRequest ==
    \E t \in MutationTableInputs({PrimaryKeyOnA}),
       o \in OptionOf(ObjectsInputs), c \in InsertArguments :
        request = [operation |-> "experimental_insert", table |-> t,
                   arguments |-> Arg("_objects", o) @@ Arg("constraint", c)]

V1InsertRequest ==
    \E t \in MutationTableInputs({PrimaryKeyOnA}), o \in OptionOf(ObjectInputs) :
        request = [operation |-> "v1_insert", table |-> t,
                   arguments |-> Arg("_object", o)]

UpdateRequest ==
    \E t \in MutationTableInputs({PrimaryKeyOnA}),
       s \in OptionOf(ObjectInputs), k \in OptionOf(KeyInputs),
       pre \in PreCheckInputs, post \in PostCheckInputs :
        request = [operation |-> "experimental_update", table |-> t,
                   arguments |-> Arg("_set", s) @@ Arg("a", k)
                                 @@ Arg("pre_check", pre)
                                 @@ Arg("post_check", post)]

GenerateRequest ==
    \E t \in MutationTableInputs(UniquenessInputs) :
        request = [operation |-> "generate_update_by_unique", table |-> t,
                   arguments |-> EmptyMap]

InitMutation ==
    /\ state = StateDefault
    /\ issued = <<>>
    /\ op = "idle"
    /\ InsertRequest \/ V1InsertRequest \/ UpdateRequest \/ GenerateRequest
    /\ result = None
    /\ previous = None
    /\ runtime = None

\* The request's operation runs, for the first or the second time, and
\* leaves its State and its output.
Translated(operation, out) ==
    /\ request.operation = operation
    /\ previous = None
    /\ op' = operation
    /\ state' = out.state
    /\ result' = out.result
    /\ previous' = IF op = "idle" THEN None ELSE Some(result)
    /\ UNCHANGED <<request, issued, runtime>>

\* The update mutation of the request's table by its column "a".
UpdateMutationOf(table) == GenerateUpdateByUnique("t", table)[1].mutation

DoExperimentalInsert ==
    Translated("experimental_insert",
               ExperimentalInsertTranslate(
                   StateNew, ExperimentalInsertGenerate("t", request.table).mutation,
                   request.arguments))

DoV1Insert ==
    Translated("v1_insert",
               V1InsertTranslate(StateNew, V1InsertGenerate("t", request.table).mutation,
                                 request.arguments))

DoUpdate ==
    Translated("experimental_update",
               UpdateTranslate(StateNew, UpdateMutationOf(request.table),
                               request.arguments))

DoGenerateUpdateByUnique ==
    Translated("generate_update_by_unique",
               [state |-> state,
                result |-> Ok(GenerateUpdateByUnique("t", request.table))])

NextMutation ==
    \/ DoExperimentalInsert
    \/ DoV1Insert
    \/ DoUpdate
    \/ DoGenerateUpdateByUnique

SpecMutation == InitMutation /\ [][NextMutation]_vars

(***************************************************************************)
(* Vocabulary of the claims about mutations: the request that was drawn.   *)
(***************************************************************************)
Columns == request.table.columns

ColumnA == Columns["a"]

Given(name) == name \in DOMAIN request.arguments

\* An object whose entries all name columns of the table and carry values
\* that translate.
Translatable(object) ==
    /\ object.j = "Object"
    /\ \A i \in 1..Len(object.entries) :
          /\ object.entries[i][1] \in DOMAIN Columns
          /\ object.entries[i][2] # JBigNumber

\* The flags under which the first arm of check_columns accepts a column.
Omittable(column) ==
    \/ column.nullable = "Nullable"
    \/ column.has_default = "HasDefault"
    \/ column.is_identity = "IdentityByDefault"

ErrorIs(r, tag) == r.tag = "Err" /\ r.error.tag = tag

C4_SuppliesColumnA ==
    \/ /\ op = "experimental_insert"
       /\ Given("_objects")
       /\ request.arguments["_objects"].j = "Array"
       /\ Len(request.arguments["_objects"].items) > 0
       /\ \A i \in 1..Len(request.arguments["_objects"].items) :
              Translatable(request.arguments["_objects"].items[i])
       /\ "a" \in Keys(request.arguments["_objects"].items[1].entries)
    \/ /\ op = "v1_insert"
       /\ Given("_object")
       /\ Translatable(request.arguments["_object"])
       /\ "a" \in Keys(request.arguments["_object"].entries)

C4_GeneratedAndIdentityAlwaysRejected ==
    C4_SuppliesColumnA =>
        /\ ColumnA.is_generated = "Stored" =>
              result = Err([tag |-> "ColumnIsGenerated", column |-> "a"])
        /\ ColumnA.is_identity = "IdentityAlways" =>
              result = Err([tag |-> "ColumnIsIdentityAlways", column |-> "a"])

(***************************************************************************)
(* C5.  An insert whose objects omit column "a" and validly supply the     *)
(* other column.  As claimed: it succeeds exactly when "a" is Nullable,    *)
(* HasDefault or IdentityByDefault, and is answered                        *)
(* MissingColumnInInsert("a") for every other column, the Stored and the   *)
(* IdentityAlways ones included.                                           *)
(***************************************************************************)
C5_OnlyB == JObject(<< <<"b", JNumber(Some(1))>> >>)

C5_OmitsColumnA ==
    \/ /\ op = "experimental_insert"
       /\ Given("_objects")
       /\ request.arguments["_objects"].j = "Array"
       /\ Len(request.arguments["_objects"].items) > 0
       /\ \A i \in 1..Len(request.arguments["_objects"].items) :
              request.arguments["_objects"].items[i] = C5_OnlyB
       /\ Given("constraint")
       /\ request.arguments["constraint"] \in {PredAnd(<<>>), PredNot(PredIsNull("a"))}
    \/ /\ op = "v1_insert"
       /\ Given("_object")
       /\ request.arguments["_object"] = C5_OnlyB

C5_MissingA == Err([tag |-> "MissingColumnInInsert", column |-> "a", collection |-> "t"])

C5_MissingColumnAsClaimed ==
    C5_OmitsColumnA =>
        IF Omittable(ColumnA) THEN IsOk(result) ELSE result = C5_MissingA

(***************************************************************************)
(* C5, as the code has it: the insert that omits "a" succeeds exactly when *)
(* "a" is Nullable, HasDefault, IdentityByDefault, Stored generated or     *)
(* IdentityAlways; for every other column it is answered                   *)
(* MissingColumnInInsert("a").                                             *)
(***************************************************************************)
C5_MissingColumn ==
    C5_OmitsColumnA =>
        IF \/ Omittable(ColumnA)
           \/ ColumnA.is_generated = "Stored"
           \/ ColumnA.is_identity = "IdentityAlways"
        THEN IsOk(result)
        ELSE result = C5_MissingA

\* An insert that omits a non-nullable Stored column without default was
\* accepted.
C5_Witness ==
    /\ op = "experimental_insert"
    /\ C5_OmitsColumnA
    /\ ~Omittable(ColumnA)
    /\ ColumnA.is_generated = "Stored"
    /\ IsOk(result)

(***************************************************************************)
(* C6.  For every `_objects` array the experimental insert accepts: the    *)
(* column list is the union of the columns the objects name, each once, in *)
(* ascending name order; there is one row per object, in the order of the  *)
(* objects, with one value per listed column; the value of a column the    *)
(* object names is the translation of the object's value, and the value of *)
(* a column it does not name is DEFAULT.                                   *)
(***************************************************************************)
C6_TranslationOf(value, typ) ==
    {InsertExpression(
         TranslateJsonValue([StateDefault EXCEPT !.global_table_index = n],
                            value, typ).result.value) : n \in 0..(2 * MaxObjects)}

C6_ColumnsAndRows ==
    (op = "experimental_insert" /\ IsOk(result)) =>
        LET items == request.arguments["_objects"].items
            cols == result.value.insert.columns
            rows == result.value.insert.values
        IN  /\ Range(cols) = UNION {Keys(items[i].entries) : i \in 1..Len(items)}
            /\ \A k \in 1..(Len(cols) - 1) : Rank(cols[k]) < Rank(cols[k + 1])
            /\ Len(rows) = Len(items)
            /\ \A i \in 1..Len(items) :
                  /\ Len(rows[i]) = Len(cols)
                  /\ \A k \in 1..Len(cols) :
                        IF cols[k] \in Keys(items[i].entries)
                        THEN rows[i][k] \in
                                C6_TranslationOf(EntryValue(items[i].entries, cols[k]),
                                                 Columns[cols[k]].type)
                        ELSE rows[i][k] = InsertDefault

\* Two objects were accepted: the first names "b" before "a", the second
\* names "b" alone and has DEFAULT for "a".
C6_Witness ==
    /\ op = "experimental_insert"
    /\ IsOk(result)
    /\ Len(result.value.insert.values) = 2
    /\ result.value.insert.columns = <<"a", "b">>
    /\ Len(request.arguments["_objects"].items[1].entries) = 2
    /\ request.arguments["_objects"].items[1].entries[1][1] = "b"
    /\ result.value.insert.values[2][1] = InsertDefault
    /\ result.value.insert.values[2][2] # InsertDefault

(***************************************************************************)
(* C7.  Every translation of an update and of a v1 insert ends in Ok or in *)
(* an Error value, never in an abort of the translator, whatever the       *)
(* argument map holds.                                                     *)
(***************************************************************************)
C7_FailuresAreErrorValues ==
    op \in {"experimental_update", "v1_insert"} => result.tag \in {"Ok", "Err"}

(***************************************************************************)
(* C8.  For every accepted update by key: SET is the translated `_set`     *)
(* object; WHERE is (key column = translated key argument) AND the         *)
(* translated pre_check; RETURNING is * followed by the translated         *)
(* post_check as CHECK_CONSTRAINT.  The pre_check is not what RETURNING    *)
(* carries and the post_check is not what WHERE carries.                   *)
(***************************************************************************)
C8_IsNull(c) ==
    [tag |-> "UnaryOperation", operator |-> "IS NULL",
     expression |-> TableColumn(DBTable("public", "t"), c)]

\* The SQL expression of each predicate document the requests carry.
C8_Predicate(p) ==
    CASE p = PredAnd(<<>>) -> TrueExpr
      [] p = PredIsNull("b") -> C8_IsNull("b")
      [] p = PredNot(PredIsNull("a")) -> ExprNot(C8_IsNull("a"))

\* The SQL expression of each key value the requests carry, at type text.
C8_Key(k) ==
    CASE k = JString("k") -> Cast(ExprValue(ValueString("k")), ScalarTypeName("text"))
      [] k = JNumber(Some(1)) -> ExprValue(ValueFloat8(1))

C8_UpdateStructure ==
    (op = "experimental_update" /\ IsOk(result)) =>
        LET entries == request.arguments["_set"].entries
            update == result.value.update
            pre == C8_Predicate(request.arguments["pre_check"])
            post == C8_Predicate(request.arguments["post_check"])
        IN  /\ DOMAIN update.set = Keys(entries)
            /\ \A c \in Keys(entries) :
                  update.set[c] \in
                      C6_TranslationOf(EntryValue(entries, c), Columns[c].type)
            /\ update.where_ =
                  ExprAnd(BinaryOperation(TableColumn(DBTable("public", "t"), "a"),
                                          "=", C8_Key(request.arguments["a"])),
                          pre)
            /\ update.returning =
                  SelectListComposite(
                      SelectStar, SelectList(<<<<ColumnAlias("CHECK_CONSTRAINT"), post>>>>))
            /\ update.schema = "public" /\ update.table = "t"

\* An update that sets a column was accepted with different pre- and
\* post-conditions.
C8_Witness ==
    /\ op = "experimental_update"
    /\ IsOk(result)
    /\ request.arguments["pre_check"] = PredAnd(<<>>)
    /\ request.arguments["post_check"] = PredNot(PredIsNull("a"))
    /\ "b" \in DOMAIN result.value.update.set

C10_OnePerSimpleConstraint ==
    op = "generate_update_by_unique" =>
        LET u == request.table.uniqueness_constraints
            simple == {n \in DOMAIN u : Cardinality(u[n]) = 1}
            generated == result.value
        IN  /\ Len(generated) = Cardinality(simple)
            /\ \A c \in DOMAIN Columns :
                  Cardinality({i \in 1..Len(generated) :
                                  /\ generated[i].name = "experimental_update_t_by_" \o c
                                  /\ generated[i].mutation.by_column = Columns[c]})
                      = Cardinality({n \in simple : u[n] = {c}})

\* A table with a compound primary key and a unique constraint on "b" got
\* the one update by "b".
C10_Witness ==
    /\ op = "generate_update_by_unique"
    /\ request.table.uniqueness_constraints = ("pk" :> {"a", "b"}) @@ ("uq" :> {"b"})
    /\ Len(result.value) = 1
    /\ result.value[1].name = "experimental_update_t_by_b"

(***************************************************************************)
(* SpecQuery: one query request, translated from a new State.              *)
(***************************************************************************)

\* Selections of the columns of the street/owner composite types.
StreetOnly == <<<<"street", FieldColumn("street", None)>>>>

AlbumsQuery ==
    [fields |-> Some(<<<<"title", FieldColumn("title", None)>>>>),
     aggregates |-> None, predicate |-> None, order_by |-> None,
     limit |-> None, offset |-> None]

\* The albums whose predicate reads a root collection column, directly and
\* under an Exists.
AlbumsRootQuery ==
    [AlbumsQuery EXCEPT
        !.predicate =
            Some([e |-> "And",
                  expressions |->
                     <<[e |-> "IsNullRoot", column |-> "id"],
                       [e |-> "Exists",
                        in_collection |-> [tag |-> "Unrelated", collection |-> "Artist",
                                           arguments |-> <<>>],
                        predicate |-> Some([e |-> "IsNullRoot", column |-> "id"])]>>])]

FieldsInputs ==
    { None,
      Some(<<>>),
      Some(<<<<"second", FieldRelationship(AlbumsQuery, "ArtistAlbums", <<>>)>>,
             <<"first", FieldRelationship(AlbumsQuery, "ArtistAlbums", <<>>)>>>>),
      Some(<<<<"id", FieldColumn("id", None)>>>>),
      Some(<<<<"id", FieldColumn("id", None)>>, <<"big", FieldColumn("big", None)>>,
             <<"tags", FieldColumn("tags", None)>>>>),
      Some(<<<<"address", FieldColumn("address", None)>>>>),
      Some(<<<<"addresses", FieldColumn("addresses", None)>>>>),
      Some(<<<<"a", FieldColumn("address", None)>>,
             <<"b", FieldColumn("addresses", None)>>>>),
      Some(<<<<"address", FieldColumn("address", Some(NestedObject(StreetOnly)))>>>>),
      Some(<<<<"a", FieldColumn("address", Some(NestedObject(StreetOnly)))>>,
             <<"b", FieldColumn("addresses",
                                Some(NestedArray(NestedObject(StreetOnly))))>>>>),
      Some(<<<<"matrix", FieldColumn("matrix", None)>>>>),
      Some(<<<<"id", FieldColumn("id", Some(NestedObject(StreetOnly)))>>>>),
      Some(<<<<"address",
               FieldColumn("address", Some(NestedArray(NestedObject(StreetOnly))))>>>>),
      Some(<<<<"tags",
               FieldColumn("tags", Some(NestedArray(NestedObject(StreetOnly))))>>>>),
      Some(<<<<"addresses",
               FieldColumn("addresses",
                           Some(NestedArray(NestedArray(NestedObject(StreetOnly)))))>>>>),
      Some(<<<<"zz", FieldColumn("zz", None)>>>>),
      Some(<<<<"id", FieldColumn("id", None)>>,
             <<"albums", FieldRelationship(AlbumsQuery, "ArtistAlbums", <<>>)>>>>),
      Some(<<<<"address", FieldColumn("address", None)>>,
             <<"albums", FieldRelationship(AlbumsQuery, "ArtistAlbums", <<>>)>>>>),
      Some(<<<<"albums", FieldRelationship(AlbumsQuery, "zz", <<>>)>>>>),
      Some(<<<<"albums", FieldRelationship(AlbumsRootQuery, "ArtistAlbums", <<>>)>>>>),
      Some(<<<<"id",
               FieldColumn("id", Some(NestedArray(NestedArray(NestedObject(StreetOnly)))))>>>>),
      Some(<<<<"tags", FieldColumn("tags", Some(NestedObject(StreetOnly)))>>>>),
      Some(<<<<"matrix",
               FieldColumn("matrix", Some(NestedArray(NestedObject(StreetOnly))))>>>>),
      Some(<<<<"id", FieldColumn("id", None)>>,
             <<"matrix", FieldColumn("matrix", None)>>>>),
      Some(<<<<"zz", FieldColumn("zz", None)>>,
             <<"matrix", FieldColumn("matrix", None)>>>>),
      Some(<<<<"addresses",
               FieldColumn("addresses", Some(NestedArray(NestedObject(StreetOnly))))>>>>) }

AggregatesInputs ==
    { None, Some(<<<<"count", [a |-> "StarCount"]>>>>) }

OrderByElement(column, path) ==
    [column |-> column, path |-> path, direction |-> "Asc"]

OrderByInputs ==
    { None,
      Some(<<OrderByElement("id", <<>>)>>),
      Some(<<OrderByElement("title", <<"ArtistAlbums">>)>>) }

IsNullRoot(column) == [e |-> "IsNullRoot", column |-> column]

Exists(in_collection, predicate) ==
    [e |-> "Exists", in_collection |-> in_collection, predicate |-> predicate]

QueryPredicateInputs ==
    { None,
      Some([e |-> "IsNull", column |-> "id"]),
      Some(IsNullRoot("id")),
      Some(Exists(Unrelated("Album"), Some(IsNullRoot("id")))),
      Some([e |-> "And",
            expressions |->
               <<Exists(Related("ArtistAlbums"),
                        Some(Exists(Unrelated("Artist"), Some(IsNullRoot("id"))))),
                 [e |-> "Not", expression |-> IsNullRoot("id")]>>]),
      Some(Exists(Unrelated("Album"), Some([e |-> "IsNull", column |-> "title"]))),
      Some(Exists(Unrelated("zz"), Some(IsNullRoot("id")))) }

QueryInputs ==
    [fields : FieldsInputs, aggregates : AggregatesInputs,
     predicate : QueryPredicateInputs, order_by : OrderByInputs,
     limit : {None, Some(1)}, offset : {None}]

QueryRequests ==
    [collection : {"Artist", "artist_by_name", "zz"}, arguments : {<<>>},
     variables : {None, Some(<<>>)}, query : QueryInputs]

InitQuery ==
    /\ state = StateDefault
    /\ issued = <<>>
    /\ op = "query"
    /\ request \in QueryRequests
    /\ result = None
    /\ previous = None
    /\ runtime = None

\* query::translate on the request.
DoTranslateQuery ==
    /\ op = "query"
    /\ result = None
    /\ LET r == TranslateQuery(request)
       IN  /\ state' = r.state
           /\ result' = r.result
    /\ op' = "translated"
    /\ UNCHANGED <<issued, request, previous, runtime>>

NextQuery == DoTranslateQuery

SpecQuery == InitQuery /\ [][NextQuery]_vars

\* The aliases a select defines: the alias of its from clause and of each
\* of its joins, and those of the selects inside them.
RECURSIVE DefiningAliases(_)
FromAliases(from) ==
    IF from = None THEN <<>>
    ELSE IF from.value.tag = "Select"
    THEN <<from.value.alias>> \o DefiningAliases(from.value.select)
    ELSE <<from.value.alias>>

RECURSIVE JoinAliasesFrom(_, _)
JoinAliasesFrom(joins, i) ==
    IF i > Len(joins) THEN <<>>
    ELSE <<joins[i].alias>> \o DefiningAliases(joins[i].select)
         \o JoinAliasesFrom(joins, i + 1)

DefiningAliases(select) ==
    FromAliases(select.from) \o JoinAliasesFrom(select.joins, 1)

NoDuplicates(seq) ==
    \A i, j \in 1..Len(seq) : seq[i] = seq[j] => i = j

QueryTranslated == op = "translated" /\ IsOk(result)

RowsAliases == DefiningAliases(result.value.rows)

AggregatesAliases ==
    IF result.value.aggregates = None THEN <<>>
    ELSE DefiningAliases(result.value.aggregates.value)

VariablesAliases ==
    IF result.value.variables_from = None THEN <<>>
    ELSE <<result.value.variables_from.value.from.alias>>

RECURSIVE AndOperand(_, _, _)
AndOperand(expression, n, i) ==
    IF i = n THEN expression.right ELSE AndOperand(expression.left, n - 1, i)

\* The tables that the root-column references of a predicate resolve to in
\* its translation.
RECURSIVE RootTables(_, _)
RootTables(predicate, expression) ==
    CASE predicate.e = "And" ->
            UNION { RootTables(predicate.expressions[i],
                               AndOperand(expression, Len(predicate.expressions), i)) :
                    i \in 1..Len(predicate.expressions) }
      [] predicate.e = "Not" -> RootTables(predicate.expression, expression.expression)
      [] predicate.e = "IsNull" -> {}
      [] predicate.e = "IsNullRoot" -> {expression.expression.table}
      [] predicate.e = "Exists" ->
            IF predicate.predicate = None THEN {}
            ELSE RootTables(predicate.predicate.value, expression.select.where_)

CurrentTableOf(select) == AliasedTable(select.from.value.alias)

\* Every root-column reference in the predicate of the query resolves to
\* root, and so it is in the sub-queries of its relationship fields, whose
\* root is their own current table (nearest) or the same root.
RECURSIVE RootsResolve(_, _, _, _)
RootsResolve(query, select, root, nearest) ==
    LET fields == IF query.fields = None THEN <<>> ELSE query.fields.value
    IN  /\ query.predicate # None =>
              RootTables(query.predicate.value, select.where_) \subseteq {root}
        /\ \A i \in 1..Len(fields) :
              fields[i][2].f = "Relationship" =>
                 \A k \in 1..Len(select.joins) :
                    select.joins[k].alias.name = "RELATIONSHIP_" \o fields[i][1] =>
                       RootsResolve(fields[i][2].query, select.joins[k].select,
                                    IF nearest THEN CurrentTableOf(select.joins[k].select)
                                    ELSE root,
                                    nearest)

MaxOperations == 2

\* The statements of a plan.
Begin(isolation_level) == [kind |-> "Begin", isolation_level |-> isolation_level]

Commit == [kind |-> "Commit"]

Rollback == [kind |-> "Rollback"]

Statement(sql) == [kind |-> "Statement", sql |-> sql]

MutationStatement(operation, statement) ==
    [kind |-> "Mutation", operation |-> operation, statement |-> statement]

QueryStatement(select_set) == [kind |-> "Query", select_set |-> select_set]

\* sql::execution_plan::ExecutionPlan
ExecutionPlan(pre, query, post) == [pre |-> pre, query |-> query, post |-> post]

\* simple_mutations_execution_plan: the mutations between the BEGIN of the
\* isolation level and the COMMIT.
SimpleMutationsExecutionPlan(isolation_level, mutations) ==
    ExecutionPlan(<<Begin(isolation_level)>>,
                  [tag |-> "Mutations", mutations |-> mutations],
                  <<Commit>>)

\* The plan statement of a translated operation, or the error of its
\* translation.
OperationStatement(operation, r) ==
    IF IsOk(r.result)
    THEN Ok(MutationStatement(operation.operation, r.result.value))
    ELSE r.result

\* mutation::translate: the operation is translated, from a new State, by
\* the translator of its kind.
TranslateOperation(operation) ==
    OperationStatement(
        operation,
        CASE operation.operation = "experimental_insert" ->
                 ExperimentalInsertTranslate(
                     StateNew,
                     ExperimentalInsertGenerate("t", operation.table).mutation,
                     operation.arguments)
          [] operation.operation = "v1_insert" ->
                 V1InsertTranslate(
                     StateNew, V1InsertGenerate("t", operation.table).mutation,
                     operation.arguments)
          [] operation.operation = "experimental_update" ->
                 UpdateTranslate(StateNew, UpdateMutationOf(operation.table),
                                 operation.arguments))

RECURSIVE OperationsFrom(_, _, _)

\* The statement of operation i joins those collected, or its error ends
\* the translation.
CollectOperation(translated, operations, i, acc) ==
    IF IsOk(translated)
    THEN OperationsFrom(operations, i + 1, Append(acc, translated.value))
    ELSE translated

\* The operations from the i-th on, translated in their order and collected
\* after acc.
OperationsFrom(operations, i, acc) ==
    IF i > Len(operations)
    THEN Ok(acc)
    ELSE CollectOperation(TranslateOperation(operations[i]), operations, i, acc)

\* The operations translated last first.
TranslateOperationsReversed(operations) ==
    OperationsFrom([i \in 1..Len(operations) |->
                       operations[Len(operations) + 1 - i]], 1, <<>>)

\* The operations of a request translated in their order, up to the first
\* that fails.
TranslateOperations(operations) == OperationsFrom(operations, 1, <<>>)

\* The main statements of a plan: its query, or its mutations in order.
MainStatements(query) ==
    IF query.tag = "Mutations" THEN query.mutations ELSE <<query.statement>>

\* The statements of a plan with post before the main statements.
PlanStatementsPostFirst(plan) ==
    plan.pre \o plan.post \o MainStatements(plan.query)

\* The statements of a plan in the order they run: pre, then the query or
\* the mutations, then post.
PlanStatements(plan) ==
    plan.pre \o MainStatements(plan.query) \o plan.post

\* The table of the runtime's mutations: a and b required, a the key.
RuntimeTable ==
    TableInfo("public", "t",
              ("a" :> ColumnInfo("a", ScalarType("text"), "NonNullable", "NoDefault",
                                 "NotIdentity", "NotGenerated"))
              @@ ("b" :> ColumnInfo("b", ScalarType("int4"), "NonNullable",
                                    "NoDefault", "NotIdentity", "NotGenerated")),
              PrimaryKeyOnA)

RowAB(a) == JObject(<< <<"a", JString(a)>>, <<"b", JNumber(Some(1))>> >>)

OperationInputs ==
    { [operation |-> "experimental_insert", table |-> RuntimeTable,
       arguments |-> ("_objects" :> JArray(<<RowAB("x")>>))
                     @@ ("constraint" :> PredAnd(<<>>))],
      [operation |-> "v1_insert", table |-> RuntimeTable,
       arguments |-> ("_object" :> RowAB("y"))],
      [operation |-> "experimental_update", table |-> RuntimeTable,
       arguments |-> ("_set" :> JObject(<< <<"b", JNumber(Some(1))>> >>))
                     @@ ("a" :> JString("k"))
                     @@ ("pre_check" :> PredAnd(<<>>))
                     @@ ("post_check" :> PredIsNull("b"))],
      [operation |-> "experimental_insert", table |-> RuntimeTable,
       arguments |-> ("_objects" :> JArray(<<JObject(<< <<"b", JNumber(Some(1))>> >>)>>))
                     @@ ("constraint" :> PredAnd(<<>>))] }

IsolationLevels == {"ReadCommitted", "RepeatableRead", "Serializable"}

MutationRequests ==
    [kind : {"mutation"}, isolation_level : IsolationLevels,
     operations : UNION {[1..n -> OperationInputs] : n \in 1..MaxOperations}]

PlanQueryInputs ==
    [collection : {"Artist", "zz"}, arguments : {<<>>}, variables : {None},
     query : [fields : {Some(<<<<"id", FieldColumn("id", None)>>>>)},
              aggregates : {None}, predicate : {None}, order_by : {None},
              limit : {None}, offset : {None}]]

PreInputs == {<<>>, <<Statement("pre1")>>, <<Statement("pre1"), Statement("pre2")>>}

PostInputs == {<<>>, <<Statement("post1")>>, <<Statement("post1"), Statement("post2")>>}

PlanQueryRequests ==
    [kind : {"query"}, query_request : PlanQueryInputs, pre : PreInputs,
     post : PostInputs]

\* A plan about to run: nothing executed, no transaction open, nothing
\* written.
RuntimeOf(plan) ==
    [plan |-> plan, pc |-> 1, executed |-> <<>>, open |-> FALSE,
     pending |-> <<>>, committed |-> <<>>, checks |-> <<>>, outcome |-> None]

InitRuntime ==
    /\ state = StateDefault
    /\ issued = <<>>
    /\ op = "request"
    /\ request \in MutationRequests \cup PlanQueryRequests
    /\ result = None
    /\ previous = None
    /\ runtime = None

\* The plan of the translated operations is about to run, or the request
\* fails with the error of their translation.
PlanMutations(mutations) ==
    IF IsOk(mutations)
    THEN /\ runtime' = RuntimeOf(SimpleMutationsExecutionPlan(
                                     request.isolation_level, mutations.value))
         /\ op' = "planned"
         /\ result' = None
    ELSE /\ runtime' = None
         /\ op' = "failed"
         /\ result' = mutations

\* A mutation request is translated into the plan of its operations.
DoPlanMutations ==
    /\ op = "request"
    /\ request.kind = "mutation"
    /\ PlanMutations(TranslateOperations(request.operations))
    /\ UNCHANGED <<state, issued, request, previous>>

\* The plan around the translated query is about to run, or the request
\* fails with the error of its translation.
PlanQuery(r) ==
    /\ state' = r.state
    /\ IF IsOk(r.result)
       THEN /\ runtime' = RuntimeOf(ExecutionPlan(
                               request.pre,
                               [tag |-> "Query",
                                statement |-> QueryStatement(r.result.value)],
                               request.post))
            /\ op' = "planned"
            /\ result' = None
       ELSE /\ runtime' = None
            /\ op' = "failed"
            /\ result' = r.result

\* A query request is translated into a plan around its query.
DoPlanQuery ==
    /\ op = "request"
    /\ request.kind = "query"
    /\ PlanQuery(TranslateQuery(request.query_request))
    /\ UNCHANGED <<issued, request, previous>>

\* What a statement does to the connection and the database; `check` is
\* the CHECK_CONSTRAINT the database returns for the rows of a mutation.
Execute(rt, statement, check) ==
    LET logged == [rt EXCEPT !.executed = Append(@, statement), !.pc = @ + 1]
        write == Cardinality({i \in 1..Len(rt.executed) :
                                 rt.executed[i].kind = "Mutation"}) + 1
    IN  CASE statement.kind = "Begin" -> [logged EXCEPT !.open = TRUE]
          [] statement.kind = "Commit" ->
                [logged EXCEPT !.open = FALSE, !.pending = <<>>,
                               !.committed = @ \o rt.pending]
          [] statement.kind = "Rollback" ->
                [logged EXCEPT !.open = FALSE, !.pending = <<>>]
          [] statement.kind = "Mutation" ->
                IF rt.open
                THEN [logged EXCEPT !.pending = Append(@, write),
                                    !.checks = Append(@, check)]
                ELSE [logged EXCEPT !.committed = Append(@, write),
                                    !.checks = Append(@, check)]
          [] OTHER -> logged

Running == op \in {"planned", "executing"} /\ runtime.outcome = None

\* The runtime executes the next statement of the plan.
DoExecuteStatement ==
    /\ Running
    /\ runtime.pc <= Len(PlanStatements(runtime.plan))
    /\ \E check \in BOOLEAN :
          /\ PlanStatements(runtime.plan)[runtime.pc].kind # "Mutation" => check
          /\ runtime' = Execute(runtime, PlanStatements(runtime.plan)[runtime.pc],
                                check)
    /\ op' = "executing"
    /\ UNCHANGED <<state, issued, request, result, previous>>

\* After the last statement the CHECK_CONSTRAINT of every returned row is
\* asserted: the request succeeds, or fails with ConstraintNotMet.
DoAssertCheckConstraint ==
    /\ Running
    /\ runtime.pc > Len(PlanStatements(runtime.plan))
    /\ runtime' = [runtime EXCEPT !.outcome =
                      IF \A i \in 1..Len(runtime.checks) : runtime.checks[i]
                      THEN Some("Ok") ELSE Some("ConstraintNotMet")]
    /\ op' = "done"
    /\ UNCHANGED <<state, issued, request, result, previous>>

\* The host cancels the request while statements are still to run: an open
\* transaction is rolled back and the connection released.
DoCancel ==
    /\ Running
    /\ runtime.pc <= Len(PlanStatements(runtime.plan))
    /\ runtime' = [(IF runtime.open THEN Execute(runtime, Rollback, TRUE)
                    ELSE runtime)
                      EXCEPT !.outcome = Some("Cancelled"),
                             !.pc = runtime.pc]
    /\ op' = "done"
    /\ UNCHANGED <<state, issued, request, result, previous>>

NextRuntime ==
    \/ DoPlanMutations
    \/ DoPlanQuery
    \/ DoExecuteStatement
    \/ DoAssertCheckConstraint
    \/ DoCancel

SpecRuntime == InitRuntime /\ [][NextRuntime]_vars

\* The writes of a mutation request, one per operation.
RequestWrites == [i \in 1..Len(request.operations) |-> i]

MutationRequestDone == runtime # None /\ op = "done" /\ request.kind = "mutation"

ExpectedMutations ==
    [i \in 1..Len(request.operations) |-> TranslateOperation(request.operations[i]).value]

IsMutationStatement(statement) == statement.kind = "Mutation"

IsPlanStatement(statement) == statement.kind # "Rollback"

MaxIssued == 1

JsonInputs ==
    { JNull, JBool(TRUE), JBool(FALSE), JNumber(Some(1)), JNumber(Some(2)),
      JBigNumber, JString("x"), JArray(<<>>), JArray(<<JNumber(Some(1))>>),
      JObject(<<>>), JObject(<< <<"street", JString("s")>> >>) }

TypeInputs ==
    { ScalarType("int4"), ScalarType("text"), CompositeType("Address"),
      ArrayType(ScalarType("int4")), ArrayType(CompositeType("Address")),
      ArrayType(ArrayType(ScalarType("text"))) }

VariablesTableInputs ==
    { AliasedTable(TableAlias(0, "%variables_table")) }

ValueRequests ==
    [kind : {"json"}, value : JsonInputs, type : TypeInputs]
    \cup [kind : {"variable"}, variables_table : VariablesTableInputs,
          variable : {"v", "w"}, type : TypeInputs]

InitValues ==
    /\ state \in {[StateDefault EXCEPT !.global_table_index = n] : n \in 0..MaxIssued}
    /\ issued = <<>>
    /\ op = "value"
    /\ request \in ValueRequests
    /\ result = None
    /\ previous = None
    /\ runtime = None

DoTranslateJsonValue ==
    /\ op = "value"
    /\ request.kind = "json"
    /\ LET r == TranslateJsonValue(state, request.value, request.type)
       IN  /\ state' = r.state
           /\ result' = r.result
    /\ op' = "translated_value"
    /\ UNCHANGED <<issued, request, previous, runtime>>

DoTranslateVariable ==
    /\ op = "value"
    /\ request.kind = "variable"
    /\ LET r == TranslateVariable(state, request.variables_table,
                                  request.variable, request.type)
       IN  /\ state' = r.state
           /\ result' = r.value
    /\ op' = "translated_variable"
    /\ UNCHANGED <<issued, request, previous, runtime>>

NextValues == DoTranslateJsonValue \/ DoTranslateVariable

SpecValues == InitValues /\ [][NextValues]_vars

\* The expression converts source, of type jsonb, to the type: with
\* jsonb_populate_record for a composite type, with array_agg over the
\* elements of jsonb_array_elements, each converted to the element type,
\* for an array type, and with the text extraction and a cast for a scalar
\* type.
RECURSIVE ProjectedAs(_, _, _, _)
ProjectedAs(expression, typ, source, extraction) ==
    CASE typ.t = "CompositeType" ->
            expression = FunctionCall("jsonb_populate_record",
                             <<Cast(ExprValue(ValueNull), ScalarTypeName(typ.name)),
                               source>>)
      [] typ.t = "ArrayType" ->
            /\ expression.tag = "CorrelatedSubSelect"
            /\ expression.select.from # None
            /\ expression.select.from.value.tag = "JsonbArrayElements"
            /\ expression.select.from.value.expression = source
            /\ Len(expression.select.select_list.columns) = 1
            /\ LET aggregate == expression.select.select_list.columns[1][2]
                   element == AliasedColumn(
                                  AliasedTable(expression.select.from.value.alias),
                                  expression.select.from.value.column)
               IN  /\ aggregate.tag = "FunctionCall"
                   /\ aggregate.function = "array_agg"
                   /\ Len(aggregate.args) = 1
                   /\ ProjectedAs(aggregate.args[1], typ.elem, element, extraction)
      [] typ.t = "ScalarType" ->
            /\ expression.tag = "Cast"
            /\ expression.type = ScalarTypeName(typ.name)
            /\ expression.expression.tag = "BinaryOperation"
            /\ expression.expression.left = source
            /\ expression.expression.operator = extraction
            /\ extraction = "#>>" =>
                  expression.expression.right
                     = Cast(ExprValue(ValueArray(<<>>)), TextArrayType)

JsonValueTranslated == op = "translated_value"

VariableTranslated == op = "translated_variable"

VariableProjection ==
    BinaryOperation(AliasedColumn(request.variables_table, ColumnAlias("variables")),
                    "->", ExprValue(ValueString(request.variable)))

\* C16 as stated: a variable is translated as the projection
\* variables_table.variables -> 'name' converted to its type, the
\* conversion of a scalar type being the ->> text extraction and a cast.
C16_ScalarByArrowText ==
    VariableTranslated =>
        ProjectedAs(result, request.type, VariableProjection, "->>")

\* C16 amended: the same, the conversion of a scalar type being the #>>
\* text extraction at the empty path and a cast.
C16_ScalarByPathText ==
    VariableTranslated =>
        ProjectedAs(result, request.type, VariableProjection, "#>>")

\* A variable of an array of arrays of text: two sub-selects, each over a
\* fresh alias, around the text extraction of the innermost element.
C16_Witness ==
    /\ VariableTranslated
    /\ request.type = ArrayType(ArrayType(ScalarType("text")))
    /\ result.tag = "CorrelatedSubSelect"
    /\ LET inner == result.select.select_list.columns[1][2].args[1]
       IN  /\ inner.tag = "CorrelatedSubSelect"
           /\ inner.select.from.value.alias # result.select.from.value.alias
           /\ inner.select.select_list.columns[1][2].args[1].expression.operator
                 = "#>>"

(***************************************************************************)
(* Nested fields in a query (C17, C18, C19).                               *)
(***************************************************************************)
\* The fields of the request and the columns of its collection.
RequestFields ==
    IF request.query.fields = None THEN <<>> ELSE request.query.fields.value

RequestColumns == LookupCollection(request.collection).value.info.columns

\* The request is a query over a known collection that has been translated.
QueryDone ==
    /\ op = "translated"
    /\ IsOk(LookupCollection(request.collection))

\* Field i selects a column of the collection.
SelectsColumn(i) ==
    /\ RequestFields[i][2].f = "Column"
    /\ RequestFields[i][2].column \in DOMAIN RequestColumns

ColumnType(i) == RequestColumns[RequestFields[i][2].column].type

\* Field i is a plain scalar or array-of-scalar column: its translation
\* cannot fail.
TranslatesPlainly(i) ==
    /\ SelectsColumn(i)
    /\ RequestFields[i][2].fields = None
    /\ \/ ColumnType(i).t = "ScalarType"
       \/ ColumnType(i).t = "ArrayType" /\ ColumnType(i).elem.t = "ScalarType"

\* The request fails, and with this error on the column of field i when
\* every field before it translates.
FailsAt(i, tag) ==
    /\ ~IsOk(result)
    /\ (\A k \in 1..(i - 1) : TranslatesPlainly(k)) =>
          /\ result.tag = "Err"
          /\ result.error.tag = tag
          /\ result.error.field_name = RequestFields[i][2].column

\* Field i is a nested-field selection of this kind on a column.
Selects(i, kind) ==
    /\ SelectsColumn(i)
    /\ RequestFields[i][2].fields # None
    /\ RequestFields[i][2].fields.value.n = kind

\* C17: a request that projects an array-of-arrays column, as a plain
\* column whose type is an array of arrays or through a nested-field
\* selection that is an array of an array on a column of any type, fails
\* with NestedArraysNotSupported naming the column.
C17_NestedArraysRejected ==
    QueryDone =>
        \A i \in 1..Len(RequestFields) :
            ( \/ /\ SelectsColumn(i)
                 /\ RequestFields[i][2].fields = None
                 /\ ColumnType(i).t = "ArrayType"
                 /\ ColumnType(i).elem.t = "ArrayType"
              \/ /\ Selects(i, "Array")
                 /\ RequestFields[i][2].fields.value.fields.n = "Array" )
            => FailsAt(i, "NestedArraysNotSupported")

\* The plain column matrix after a column that translates.
C17_Witness ==
    /\ QueryDone
    /\ Len(RequestFields) = 2
    /\ RequestFields[2][2] = FieldColumn("matrix", None)
    /\ TranslatesPlainly(1)
    /\ result = Err([tag |-> "NestedArraysNotSupported", field_name |-> "matrix"])

\* C18 as stated: an object selection on a column that is not composite,
\* and an array selection on an array whose element is not composite, fail
\* with NestedFieldNotOfCompositeType; an array selection on a column that
\* is not an array fails with NestedFieldNotOfArrayType.
C18_ArraySelectionOfAnyKind ==
    QueryDone =>
        \A i \in 1..Len(RequestFields) :
            /\ (Selects(i, "Object") /\ ColumnType(i).t # "CompositeType") =>
                  FailsAt(i, "NestedFieldNotOfCompositeType")
            /\ ( /\ Selects(i, "Array")
                 /\ ColumnType(i).t = "ArrayType"
                 /\ ColumnType(i).elem.t # "CompositeType" ) =>
                  FailsAt(i, "NestedFieldNotOfCompositeType")
            /\ (Selects(i, "Array") /\ ColumnType(i).t # "ArrayType") =>
                  FailsAt(i, "NestedFieldNotOfArrayType")

\* Field i is an array selection whose elements are objects.
SelectsArrayOfObjects(i) ==
    /\ Selects(i, "Array")
    /\ RequestFields[i][2].fields.value.fields.n = "Object"

\* C18 amended: the same for the array selections whose elements are
\* objects; an array selection whose elements are arrays fails with
\* NestedArraysNotSupported whatever the type of the column.
C18_ArraySelectionOfObjects ==
    QueryDone =>
        \A i \in 1..Len(RequestFields) :
            /\ (Selects(i, "Object") /\ ColumnType(i).t # "CompositeType") =>
                  /\ FailsAt(i, "NestedFieldNotOfCompositeType")
                  /\ i = 1 => result.error.actual_type = ColumnType(i)
            /\ ( /\ SelectsArrayOfObjects(i)
                 /\ ColumnType(i).t = "ArrayType"
                 /\ ColumnType(i).elem.t # "CompositeType" ) =>
                  /\ FailsAt(i, "NestedFieldNotOfCompositeType")
                  /\ i = 1 => result.error.actual_type = ColumnType(i).elem
            /\ (SelectsArrayOfObjects(i) /\ ColumnType(i).t # "ArrayType") =>
                  /\ FailsAt(i, "NestedFieldNotOfArrayType")
                  /\ i = 1 => result.error.actual_type = ColumnType(i)
            /\ ( /\ Selects(i, "Array")
                 /\ ~SelectsArrayOfObjects(i)
                 /\ ColumnType(i).t # "ArrayType" ) =>
                  FailsAt(i, "NestedArraysNotSupported")

\* An array-of-objects selection on the composite column address.
C18_Witness ==
    /\ QueryDone
    /\ RequestFields =
          <<<<"address",
              FieldColumn("address", Some(NestedArray(NestedObject(StreetOnly))))>>>>
    /\ result = Err([tag |-> "NestedFieldNotOfArrayType", field_name |-> "address",
                     actual_type |-> CompositeType("Address")])

\* The request projects one nested composite column, the street of the
\* address or of the addresses, and nothing else that joins.
ProjectsOneNestedColumn ==
    /\ QueryDone
    /\ IsOk(result)
    /\ request.query.order_by = None
    /\ Len(RequestFields) = 1
    /\ \/ /\ Selects(1, "Object")
          /\ RequestFields[1][2].fields.value.fields = StreetOnly
       \/ /\ SelectsArrayOfObjects(1)
          /\ RequestFields[1][2].fields.value.fields.fields = StreetOnly

\* C19 as stated: projecting one nested composite column produces two
\* lateral joins, and the projected column is a reference to `collected`
\* on the alias of the outer one.
C19_TwoLateralJoins ==
    ProjectsOneNestedColumn =>
        LET joins == result.value.rows.joins
        IN  /\ Len(joins) = 2
            /\ \A k \in 1..Len(joins) : joins[k].tag = "LeftOuterJoinLateral"
            /\ result.value.rows.select_list.columns[1][2]
                  = AliasedColumn(AliasedTable(joins[Len(joins)].alias),
                                  ColumnAlias("collected"))

\* C19 amended: projecting one nested composite column produces one
\* lateral join around two nested sub-queries: the select of the join
\* applies the collect expression, aliased collected, to the sub-query of
\* the selected fields, which reads the sub-query that unpacks the
\* composite value; the projected column is a reference to `collected` on
\* the alias of the join.
C19_OneLateralJoinTwoSubQueries ==
    ProjectsOneNestedColumn =>
        LET joins == result.value.rows.joins
            collect == joins[1].select
            nested_fields == collect.from.value
            binding == nested_fields.select.from.value
            outer == AliasedColumn(CurrentTableOf(result.value.rows),
                                   ColumnAlias(RequestFields[1][2].column))
            object == Selects(1, "Object")
        IN  /\ Len(joins) = 1
            /\ joins[1].tag = "LeftOuterJoinLateral"
            /\ joins[1].alias.name = "nested_fields_collect"
            /\ collect.joins = <<>>
            /\ collect.select_list
                  = SelectList(<<<<ColumnAlias("collected"),
                                  IF object
                                  THEN RowToJson(AliasedTable(nested_fields.alias))
                                  ELSE FunctionCall("json_agg",
                                           <<RowToJson(AliasedTable(nested_fields.alias))>>)
                                >>>>)
            /\ nested_fields.tag = "Select"
            /\ nested_fields.alias.name = "nested_fields"
            /\ nested_fields.select.joins = <<>>
            /\ nested_fields.select.select_list
                  = SelectList(<<<<ColumnAlias("street"),
                                  TableColumn(AliasedTable(binding.alias), "street")>>>>)
            /\ binding.tag = "Select"
            /\ binding.alias.name = "nested_field_binding"
            /\ binding.select
                  = SelectComposite(IF object THEN outer
                                    ELSE FunctionCall("unnest", <<outer>>))
            /\ result.value.rows.select_list.columns[1][2]
                  = AliasedColumn(AliasedTable(joins[1].alias),
                                  ColumnAlias("collected"))

\* The street of every address, collected with json_agg.
C19_Witness ==
    /\ ProjectsOneNestedColumn
    /\ SelectsArrayOfObjects(1)
    /\ RequestFields[1][2].column = "addresses"
    /\ Len(result.value.rows.joins) = 1
    /\ result.value.rows.joins[1].select.select_list.columns[1][2].function
          = "json_agg"

(***************************************************************************)
(* Projection of one scalar or array-of-scalar column of a table, for      *)
(* every type representation of the catalog and for a type without one.    *)
(***************************************************************************)
ScalarTypeInputs == {ScalarType(n) : n \in DOMAIN TypeRepresentations \cup {"text"}}

ProjectionRequests ==
    [current_table : {TableNameAndReference("Artist",
                                            AliasedTable(TableAlias(0, "Artist")))},
     alias : {"c", "d"},
     column : {[name |-> "col", type |-> t] :
                  t \in ScalarTypeInputs \cup {ArrayType(e) : e \in ScalarTypeInputs}}]

InitProjection ==
    /\ state \in {[StateDefault EXCEPT !.global_table_index = n] : n \in 1..(MaxIssued + 1)}
    /\ issued = <<>>
    /\ op = "project"
    /\ request \in ProjectionRequests
    /\ result = None
    /\ previous = None
    /\ runtime = None

DoUnpackAndWrapColumn ==
    /\ op = "project"
    /\ LET r == UnpackAndWrapColumn(state, <<>>, request.current_table,
                                    request.column.name, ColumnAlias(request.alias),
                                    request.column)
       IN  /\ state' = r.state
           /\ result' = r.result
    /\ op' = "projected"
    /\ UNCHANGED <<issued, request, previous, runtime>>

NextProjection == DoUnpackAndWrapColumn

SpecProjection == InitProjection /\ [][NextProjection]_vars

\* The representation of the scalar type of the projected column, or of
\* its elements, when the catalog gives one.
ProjectedRepresentation ==
    LET scalar == IF request.column.type.t = "ArrayType" THEN request.column.type.elem
                  ELSE request.column.type
    IN  IF scalar.name \in DOMAIN TypeRepresentations
        THEN Some(TypeRepresentations[scalar.name])
        ELSE None

RepresentedAsString ==
    ProjectedRepresentation \in {Some("Int64AsString"), Some("BigDecimalAsString")}

\* C20: a projected scalar column is CAST(column AS text) if and only if
\* the representation of its type is Int64AsString or BigDecimalAsString,
\* an array-of-scalar column is cast to text[] under the same condition,
\* and with any other representation, or none, the projected expression
\* is the bare column reference.
C20_CastIffRepresentedAsString ==
    op = "projected" =>
        LET bare == TableColumn(request.current_table.reference, request.column.name)
            text == [name |-> "text",
                     is_array |-> request.column.type.t = "ArrayType"]
        IN  /\ IsOk(result)
            /\ result.value.column[1] = ColumnAlias(request.alias)
            /\ result.value.column[2].tag = "Cast" <=> RepresentedAsString
            /\ RepresentedAsString =>
                  result.value.column[2] = Cast(bare, text)
            /\ ~RepresentedAsString => result.value.column[2] = bare
            /\ result.value.nested_field_joins = <<>>

\* An array of numeric, cast to text[].
C20_Witness ==
    /\ op = "projected"
    /\ request.column.type = ArrayType(ScalarType("numeric"))
    /\ IsOk(result)
    /\ result.value.column[2].tag = "Cast"
    /\ result.value.column[2].type = [name |-> "text", is_array |-> TRUE]

(***************************************************************************)
(* The lookups of the Env (helpers.rs) over a family of catalogs.  The     *)
(* name Shared is a table, a native query and a composite type at once,    *)
(* artist_by_name a native query and a composite type.                     *)
(***************************************************************************)
TableNames == {"Artist", "Shared"}

NativeNames == {"artist_by_name", "Shared"}

CompositeNames == {"Address", "artist_by_name", "Shared"}

EqOperator ==
    [operator_name |-> "=", operator_kind |-> "Equal",
     argument_type |-> ScalarType("int4"), is_infix |-> TRUE]

OperatorCatalogs ==
    { EmptyMap, ("int4" :> EmptyMap), ("int4" :> ("_eq" :> EqOperator)) }

\* The composite type stored under name n; its own name is what the catalog
\* says, not the key.
CatalogCompositeType(n) ==
    [name |-> IF n = "artist_by_name" THEN "ArtistByName" ELSE n,
     fields |-> ("street" :> FieldInfo("street", ScalarType("text")))]

Catalogs ==
    { [tables |-> [n \in T |-> TableInfo("public", n, AlbumColumns, EmptyMap)],
       native_queries |-> [n \in Q |-> [columns |-> ArtistColumns]],
       composite_types |-> [n \in C |-> CatalogCompositeType(n)],
       comparison_operators |-> O] :
         T \in SUBSET TableNames, Q \in SUBSET NativeNames,
         C \in SUBSET CompositeNames, O \in OperatorCatalogs }

LookupNames == {"Artist", "Shared", "artist_by_name", "Address", "zz"}

LookupKinds ==
    {"collection", "composite_type", "native_query", "relationship",
     "comparison_operator", "column", "variables"}

\* A lookup request: the catalog, the relationships and variables of the
\* request, and what is looked up.
EnvRequests ==
    [lookup : {"collection", "composite_type", "native_query"},
     metadata : Catalogs, relationships : {EmptyMap}, variables : {None},
     name : LookupNames, column : {"id"}, operator : {"_eq"}]
    \cup
    [lookup : {"relationship"},
     metadata : {Metadata}, relationships : {EmptyMap, Relationships},
     variables : {None}, name : {"ArtistAlbums", "zz"}, column : {"id"},
     operator : {"_eq"}]
    \cup
    [lookup : {"comparison_operator"},
     metadata : {m \in Catalogs : m.tables = EmptyMap /\ m.native_queries = EmptyMap
                                  /\ m.composite_types = EmptyMap},
     relationships : {EmptyMap}, variables : {None}, name : {"int4", "text"},
     column : {"id"}, operator : {"_eq", "_zz"}]
    \cup
    [lookup : {"column"},
     metadata : {m \in Catalogs : m.comparison_operators = EmptyMap},
     relationships : {EmptyMap}, variables : {None},
     name : LookupNames \ {"zz"}, column : {"id", "title", "street", "zz"},
     operator : {"_eq"}]
    \cup
    [lookup : {"variables"},
     metadata : {Metadata}, relationships : {EmptyMap},
     variables : VariablesInputs, name : {"zz"}, column : {"id"},
     operator : {"_eq"}]

InitEnv ==
    /\ state \in {[native_queries |-> <<>>, global_table_index |-> i] :
                     i \in 0..MaxAliases}
    /\ issued = <<>>
    /\ op = "lookup"
    /\ request \in EnvRequests
    /\ result = None
    /\ previous = None
    /\ runtime = None

\* A lookup reads the Env and answers; the State is not touched.
Answer(kind, answer) ==
    /\ op = "lookup"
    /\ request.lookup = kind
    /\ result' = answer
    /\ op' = "looked_up"
    /\ UNCHANGED <<state, issued, request, previous, runtime>>

DoLookupCollection ==
    Answer("collection", EnvLookupCollection(request.metadata, request.name))

DoLookupCompositeType ==
    Answer("composite_type", EnvLookupCompositeType(request.metadata, request.name))

DoLookupNativeQuery ==
    Answer("native_query", EnvLookupNativeQuery(request.metadata, request.name))

DoLookupRelationship ==
    Answer("relationship", EnvLookupRelationship(request.relationships, request.name))

DoLookupComparisonOperator ==
    Answer("comparison_operator",
           EnvLookupComparisonOperator(request.metadata, ScalarType(request.name),
                                       request.operator))

\* lookup_column on the collection or composite type of the name, once
\* that one was found.
DoLookupColumn ==
    /\ IsOk(EnvLookupCompositeType(request.metadata, request.name))
    /\ Answer("column",
              CompositeLookupColumn(
                  EnvLookupCompositeType(request.metadata, request.name).value,
                  request.column))

\* The translation of a query makes the variables table of its request; the
\* Env it builds keeps the table's reference.
DoMakeVariablesTableOfRequest ==
    /\ op = "lookup"
    /\ request.lookup = "variables"
    /\ LET made == MakeVariablesTable(state, request.variables)
       IN  /\ state' = made.state
           /\ issued' = IF made.value = None THEN issued
                        ELSE Append(issued, made.value.value.reference.alias)
           /\ previous' = made.value
    /\ op' = "env"
    /\ UNCHANGED <<request, result, runtime>>

\* The variables_table of the Env: the reference of the table made.
VariablesTableOfEnv ==
    IF previous = None THEN None ELSE Some(previous.value.reference)

DoGetVariablesTable ==
    /\ op = "env"
    /\ result' = GetVariablesTable(VariablesTableOfEnv)
    /\ op' = "looked_up"
    /\ UNCHANGED <<state, issued, request, previous, runtime>>

NextEnv ==
    \/ DoLookupCollection
    \/ DoLookupCompositeType
    \/ DoLookupNativeQuery
    \/ DoLookupRelationship
    \/ DoLookupComparisonOperator
    \/ DoLookupColumn
    \/ DoMakeVariablesTableOfRequest
    \/ DoGetVariablesTable

SpecEnv == InitEnv /\ [][NextEnv]_vars

EnvLookedUp(kind) ==
    op = "lookup" /\ op' = "looked_up" /\ request.lookup = kind

\* What the catalog holds under the name the column is looked up in: the
\* table, else the native query, else the composite type.
ColumnsLookedIn ==
    IF request.name \in DOMAIN request.metadata.tables
    THEN [name |-> request.name,
          columns |-> DOMAIN request.metadata.tables[request.name].columns]
    ELSE IF request.name \in DOMAIN request.metadata.native_queries
    THEN [name |-> request.name,
          columns |-> DOMAIN request.metadata.native_queries[request.name].columns]
    ELSE [name |-> request.metadata.composite_types[request.name].name,
          columns |-> DOMAIN request.metadata.composite_types[request.name].fields]

\* The lookup of the request finds nothing.
LookupMisses ==
    CASE request.lookup = "collection" ->
             request.name \notin DOMAIN request.metadata.tables
                                 \cup DOMAIN request.metadata.native_queries
      [] request.lookup = "native_query" ->
             request.name \notin DOMAIN request.metadata.native_queries
      [] request.lookup = "relationship" ->
             request.name \notin DOMAIN request.relationships
      [] request.lookup = "comparison_operator" ->
             \/ request.name \notin DOMAIN request.metadata.comparison_operators
             \/ request.operator \notin
                    DOMAIN request.metadata.comparison_operators[request.name]
      [] request.lookup = "column" -> request.column \notin ColumnsLookedIn.columns
      [] OTHER -> FALSE

\* The error the failed lookup of the request is to give.
LookupError ==
    CASE request.lookup = "collection" ->
             [tag |-> "CollectionNotFound", collection |-> request.name]
      [] request.lookup = "native_query" ->
             [tag |-> "ProcedureNotFound", procedure |-> request.name]
      [] request.lookup = "relationship" ->
             [tag |-> "RelationshipNotFound", relationship |-> request.name]
      [] request.lookup = "comparison_operator" ->
             [tag |-> "OperatorNotFound", operator_name |-> request.operator,
              type_name |-> ScalarType(request.name)]
      [] request.lookup = "column" ->
             [tag |-> "ColumnNotFoundInCollection", column |-> request.column,
              collection |-> ColumnsLookedIn.name]

C21_Lookups ==
    {"collection", "native_query", "relationship", "comparison_operator", "column"}

\* C21: every failed catalog lookup returns the error variant of that
\* lookup carrying the looked-up identifier, and changes nothing else:
\* lookup_collection gives CollectionNotFound(name), lookup_native_query
\* ProcedureNotFound(name), lookup_relationship RelationshipNotFound(name),
\* lookup_comparison_operator OperatorNotFound{operator, type} both when the
\* scalar type has no operators and when the operator is missing for it,
\* lookup_column ColumnNotFoundInCollection(column, collection); a lookup
\* that finds its entry succeeds.
C21_FailedLookupCarriesIdentifier ==
    [][ (\E kind \in C21_Lookups : EnvLookedUp(kind)) =>
            /\ UNCHANGED <<state, issued, request>>
            /\ IF LookupMisses THEN result' = Err(LookupError)
               ELSE IsOk(result') ]_vars

\* An operator missing among the operators its scalar type does have is
\* reported with the operator and the type.
C21_Witness ==
    /\ op = "looked_up"
    /\ request.lookup = "comparison_operator"
    /\ request.name \in DOMAIN request.metadata.comparison_operators
    /\ request.metadata.comparison_operators[request.name] # EmptyMap
    /\ request.operator = "_zz"
    /\ result = OperatorNotFound("_zz", ScalarType("int4"))

\* C22: make_variables_table returns a from-clause and a table reference,
\* allocating exactly one alias named %variables_table, exactly when the
\* request's variables are present, even if the list is empty; it returns
\* nothing and allocates no alias when they are absent; and
\* get_variables_table fails with UnexpectedVariable if and only if the
\* request carried no variables.
C22_VariablesTableIffVariables ==
    [][ /\ (op = "lookup" /\ op' = "env") =>
              IF request.variables = None
              THEN previous' = None /\ state' = state /\ issued' = issued
              ELSE /\ state' = [state EXCEPT !.global_table_index = @ + 1]
                   /\ issued' = <<TableAlias(state.global_table_index,
                                             "%variables_table")>>
                   /\ previous' = Some([from |-> FromVariables(issued'[1]),
                                        reference |-> AliasedTable(issued'[1])])
        /\ (op = "env" /\ op' = "looked_up") =>
              /\ UNCHANGED <<state, issued>>
              /\ (result' = UnexpectedVariable) <=> (request.variables = None)
              /\ request.variables # None => result' = Ok(AliasedTable(issued[1]))
      ]_vars

\* An empty list of variables still has its table.
C22_Witness ==
    /\ op = "looked_up"
    /\ request.lookup = "variables"
    /\ request.variables = Some(<<>>)
    /\ Len(issued) = 1
    /\ result = Ok(AliasedTable(issued[1]))

\* C29: lookup_collection returns the table when a table and a native query
\* share a name and the native query only when no table has that name;
\* lookup_composite_type returns the collection when a collection and a
\* composite type share a name, the composite type only when no collection
\* has it, and CollectionNotFound(name) when neither exists.
C29_NamePrecedence ==
    (op = "looked_up" /\ request.lookup \in {"collection", "composite_type"}) =>
        LET collection ==
                IF request.name \in DOMAIN request.metadata.tables
                THEN Some([kind |-> "Table", name |-> request.name,
                           info |-> request.metadata.tables[request.name]])
                ELSE IF request.name \in DOMAIN request.metadata.native_queries
                THEN Some([kind |-> "NativeQuery", name |-> request.name,
                           info |-> request.metadata.native_queries[request.name]])
                ELSE None
        IN  IF request.lookup = "collection"
            THEN collection # None => result = Ok(collection.value)
            ELSE IF collection # None
            THEN result = Ok([kind |-> "CollectionInfo", info |-> collection.value])
            ELSE IF request.name \in DOMAIN request.metadata.composite_types
            THEN /\ IsOk(result)
                 /\ result.value.kind = "CompositeTypeInfo"
                 /\ result.value.info = request.metadata.composite_types[request.name]
            ELSE result = CollectionNotFound(request.name)

\* A name that is a table, a native query and a composite type resolves,
\* as a composite type, to the table.
C29_Witness ==
    /\ op = "looked_up"
    /\ request.lookup = "composite_type"
    /\ request.name \in DOMAIN request.metadata.tables
    /\ request.name \in DOMAIN request.metadata.native_queries
    /\ request.name \in DOMAIN request.metadata.composite_types
    /\ IsOk(result)
    /\ result.value.kind = "CollectionInfo"
    /\ result.value.info.kind = "Table"

(***************************************************************************)
(* The native queries of the State (helpers.rs, root.rs): queries are      *)
(* inserted directly and by the from-clauses built over collections.       *)
(***************************************************************************)
CollectionInputs == {"Artist", "artist_by_name", "zz"}

CollectionAliasInputs == {None, Some(TableAlias(0, "given"))}

\* The aliases the native queries from the i-th on were stored with.
AliasesFrom(native_queries, i) ==
    [k \in 1..(Len(native_queries) + 1 - i) |-> native_queries[i + k - 1].alias]

\* A from-clause is built over a collection, under the caller's alias or a
\* fresh one.
FromClauseMade(made, fresh) ==
    /\ state' = made.state
    /\ issued' = issued \o fresh
                        \o AliasesFrom(made.state.native_queries,
                                       Len(state.native_queries) + 1)
    /\ result' = made.result
    /\ op' = "make_from_clause_and_reference"

DoMakeFromClauseAndReference ==
    \E n \in CollectionInputs, args \in NativeQueryArguments,
       alias \in CollectionAliasInputs :
        /\ state.global_table_index < MaxAliases
        /\ FromClauseMade(MakeFromClauseAndReference(state, n, args, alias),
                          IF alias = None
                          THEN <<TableAlias(state.global_table_index, n)>>
                          ELSE <<>>)
        /\ request' = [collection |-> n, arguments |-> args,
                       collection_alias |-> alias]
        /\ UNCHANGED <<previous, runtime>>

NextNativeQueries ==
    \/ DoInsertNativeQuery
    \/ DoMakeFromClauseAndReference

SpecNativeQueries == InitState /\ [][NextNativeQueries]_vars

\* The list grew by one entry at its end, stored with a fresh NATIVE_QUERY_
\* alias of the name, the arguments and the reference handed out.
AppendedOne(old, new, name, arguments, reference) ==
    /\ Len(new) = Len(old) + 1
    /\ new[Len(new)].alias.name = "NATIVE_QUERY_" \o name
    /\ new[Len(new)].arguments = arguments
    /\ reference = AliasedTable(new[Len(new)].alias)
    /\ \A i \in 1..Len(old) : old[i].alias # new[Len(new)].alias

\* C23: the native-query list of State only appends: each
\* insert_native_query call, and each from-clause built over a native-query
\* collection, adds exactly one entry at the end, leaves all earlier entries
\* unchanged and returns an AliasedTable whose fresh NATIVE_QUERY_<name>
\* alias is the alias stored in that entry, so two invocations of the same
\* native query get two distinct aliases; a from-clause over a table leaves
\* the list unchanged.
C23_NativeQueriesOnlyAppend ==
    [][ /\ Len(state'.native_queries) >= Len(state.native_queries)
        /\ SubSeq(state'.native_queries, 1, Len(state.native_queries))
               = state.native_queries
        /\ op' = "insert_native_query" =>
              AppendedOne(state.native_queries, state'.native_queries,
                          request'.value[1], request'.value[2], result'.value)
        /\ (op' = "make_from_clause_and_reference"
            /\ request'.collection \in DOMAIN Metadata.native_queries
            /\ request'.collection \notin DOMAIN Metadata.tables) =>
              /\ IsOk(result')
              /\ result'.value.from_clause.tag = "Table"
              /\ AppendedOne(state.native_queries, state'.native_queries,
                             request'.collection, request'.arguments,
                             result'.value.from_clause.reference)
        /\ (op' = "make_from_clause_and_reference"
            /\ request'.collection \in DOMAIN Metadata.tables) =>
              state'.native_queries = state.native_queries
      ]_vars

\* The same native query invoked twice with the same arguments, the second
\* time by a from-clause, is stored twice under two aliases.
C23_Witness ==
    /\ op = "make_from_clause_and_reference"
    /\ request.collection = "artist_by_name"
    /\ Len(state.native_queries) = 2
    /\ state.native_queries[1].arguments = state.native_queries[2].arguments
    /\ state.native_queries[1].alias.name = state.native_queries[2].alias.name
    /\ state.native_queries[1].alias # state.native_queries[2].alias

(***************************************************************************)
(* The joins of the relationship fields (fields.rs, root.rs).              *)
(***************************************************************************)
\* The positions of the Field::Relationship entries among the fields of the
\* request, in the order the fields are listed.
RelationshipFields ==
    SelectSeq([i \in 1..Len(RequestFields) |-> i],
              LAMBDA i : RequestFields[i][2].f = "Relationship")

IsRelationshipJoin(join) ==
    \E i \in 1..Len(RequestFields) :
        /\ RequestFields[i][2].f = "Relationship"
        /\ join.alias.name = "RELATIONSHIP_" \o RequestFields[i][1]

\* The joins of the rows select made for the relationship fields.
RelationshipJoins == SelectSeq(result.value.rows.joins, IsRelationshipJoin)

\* The aliases the Exists of an expression read their collections under.
RECURSIVE ExistsAliases(_)
ExistsAliases(expression) ==
    CASE expression.tag = "And" ->
             ExistsAliases(expression.left) \cup ExistsAliases(expression.right)
      [] expression.tag = "Not" -> ExistsAliases(expression.expression)
      [] expression.tag = "Exists" ->
             {expression.select.from.value.alias}
             \cup ExistsAliases(expression.select.where_)
      [] OTHER -> {}

\* The aliases made while the order by and the predicate of the rows were
\* translated.
OrderByAndPredicateAliases ==
    {a \in Range(RowsAliases) :
        a.name \in {"ORDER_FOR_" \o request.collection, "ORDER_PART_Album"}}
    \cup ExistsAliases(result.value.rows.where_)

\* C24: each Field::Relationship of a field selection allocates one fresh
\* RELATIONSHIP_<alias> table alias and projects a reference to that
\* alias's column; its join is deferred: the joins of the collected
\* requests are produced only after the fields, the order by and the
\* predicate of the same query have been translated, one left outer
\* lateral join per request in the order the fields were listed.
C24_RelationshipJoinsDeferred ==
    QueryTranslated =>
        /\ Len(RelationshipJoins) = Len(RelationshipFields)
        /\ \A k \in 1..Len(RelationshipFields) :
              LET field == RequestFields[RelationshipFields[k]]
                  join == RelationshipJoins[k]
                  joined == join.select.from.value.alias
              IN  /\ join.tag = "LeftOuterJoinLateral"
                  /\ join.alias.name = "RELATIONSHIP_" \o field[1]
                  /\ result.value.rows.select_list.columns[RelationshipFields[k]]
                        = <<ColumnAlias(field[1]),
                            AliasedColumn(AliasedTable(join.alias),
                                          ColumnAlias(field[1]))>>
                  /\ \A l \in 1..Len(RelationshipJoins) :
                        /\ l # k => RelationshipJoins[l].alias # join.alias
                        /\ RelationshipJoins[l].alias.unique_index
                              < joined.unique_index
                        /\ l < k =>
                              RelationshipJoins[l].select.from.value.alias.unique_index
                                 < joined.unique_index
                  /\ \A a \in OrderByAndPredicateAliases :
                        /\ join.alias.unique_index < a.unique_index
                        /\ a.unique_index < joined.unique_index

\* Two relationship fields, listed against the order of their names, in a
\* query ordered over a relationship and filtered by an Exists.
C24_Witness ==
    /\ QueryTranslated
    /\ Len(RelationshipJoins) = 2
    /\ RelationshipJoins[1].alias.name = "RELATIONSHIP_second"
    /\ RelationshipJoins[2].alias.name = "RELATIONSHIP_first"
    /\ \E a \in OrderByAndPredicateAliases : a.name = "ORDER_PART_Album"
    /\ ExistsAliases(result.value.rows.where_) # {}

(***************************************************************************)
(* The rows and the aggregates of a query (root.rs).                       *)
(***************************************************************************)
NoFields == RequestFields = <<>>

\* C25: a query with no fields and no aggregates is legal:
\* translate_rows_query succeeds with an empty projection select and
\* reports NoFieldsWereRequested; and it reports NoFieldsWereRequested
\* exactly when the request's fields are absent or empty.
C25_NoFieldsIsLegal ==
    QueryDone =>
        /\ (/\ NoFields
            /\ request.query.aggregates = None
            /\ request.query.order_by = None
            /\ request.query.predicate = None) => IsOk(result)
        /\ IsOk(result) =>
              /\ (result.value.returns_fields = "NoFieldsWereRequested") <=> NoFields
              /\ result.value.returns_fields
                    \in {"NoFieldsWereRequested", "FieldsWereRequested"}
              /\ NoFields => result.value.rows.select_list = SelectList(<<>>)

\* An empty map of fields, and no aggregates.
C25_Witness ==
    /\ QueryTranslated
    /\ request.query.fields = Some(<<>>)
    /\ request.query.aggregates = None
    /\ result.value.returns_fields = "NoFieldsWereRequested"
    /\ result.value.rows.select_list = SelectList(<<>>)
    /\ result.value.aggregates = None

RequestOrderBy ==
    IF request.query.order_by = None THEN <<>> ELSE request.query.order_by.value

\* The column an order by target reads.
TargetColumn(target) ==
    IF target.kind = "TableColumn" THEN target.name ELSE target.column.name

\* The rows carry the limit, the offset and the order by of the request.
RowsCarryLimitAndOrder ==
    /\ result.value.rows.limit = [limit |-> request.query.limit,
                                  offset |-> request.query.offset]
    /\ Len(result.value.rows.order_by) = Len(RequestOrderBy)
    /\ \A i \in 1..Len(RequestOrderBy) :
          /\ result.value.rows.order_by[i].direction = RequestOrderBy[i].direction
          /\ TargetColumn(result.value.rows.order_by[i].target)
                = RequestOrderBy[i].column

\* An expression with the unique index of every table alias in it set to 0.
RECURSIVE WithoutIndices(_)
WithoutIndices(expression) ==
    CASE expression.tag = "And" ->
             ExprAnd(WithoutIndices(expression.left),
                     WithoutIndices(expression.right))
      [] expression.tag = "Not" -> ExprNot(WithoutIndices(expression.expression))
      [] expression.tag = "Exists" ->
             ExprExists(
                 [expression.select EXCEPT
                     !.from = Some([@.value EXCEPT !.alias.unique_index = 0]),
                     !.where_ = WithoutIndices(@)])
      [] expression.tag = "UnaryOperation" ->
             IF expression.expression.table.tag = "AliasedTable"
             THEN [expression EXCEPT !.expression.table.alias.unique_index = 0]
             ELSE expression
      [] OTHER -> expression

\* The aggregates select exists exactly for a request with aggregates, and
\* has no limit, no offset, no order by and the from clause of the rows.
AggregatesCarryNoLimitNoOrder ==
    /\ (result.value.aggregates # None) <=> (request.query.aggregates # None)
    /\ result.value.aggregates # None =>
          /\ result.value.aggregates.value.limit = NoLimit
          /\ result.value.aggregates.value.order_by = <<>>
          /\ result.value.aggregates.value.from = result.value.rows.from
          /\ result.value.aggregates.value.from = Some(result.value.from_clause)

MaxCommands == 3

ConfigurationFilename == "configuration.json"

MetadataDir == ".hasura-connector"

MetadataFile == ".hasura-connector/connector-metadata.yaml"

Directory(exists, entries) == [exists |-> exists, entries |-> entries]

DirectoryIsNotEmpty == Err([tag |-> "DirectoryIsNotEmpty"])

IoError == Err([tag |-> "Io"])

\* fs::read_dir: the entries directly in the directory.
ReadDir(dir) == {path \in DOMAIN dir.entries : path # MetadataFile}

\* An initialize that does not look whether the directory is empty.
InitializeAnyDirectory(dir, with_metadata) ==
    [dir |-> Directory(TRUE,
                       (ConfigurationFilename :> "empty configuration")
                       @@ (IF with_metadata
                           THEN (MetadataDir :> "directory")
                                @@ (MetadataFile :> "connector metadata")
                           ELSE EmptyMap)
                       @@ dir.entries),
     result |-> Ok("initialized")]

\* initialize: the directory is created when missing; unless it is empty
\* nothing is written; otherwise the configuration file is created and,
\* when asked for, the metadata directory and its file.
Initialize(dir, with_metadata) ==
    IF dir.exists /\ ReadDir(dir) # {}
    THEN [dir |-> dir, result |-> DirectoryIsNotEmpty]
    ELSE [dir |-> Directory(TRUE,
                            (ConfigurationFilename :> "empty configuration")
                            @@ (IF with_metadata
                                THEN (MetadataDir :> "directory")
                                     @@ (MetadataFile :> "connector metadata")
                                ELSE EmptyMap)),
          result |-> Ok("initialized")]

\* What the configuration files the CLI wrote parse to.
ParsesAsConfiguration(content) ==
    content \in {"empty configuration", "introspected configuration"}

\* update: the configuration file is read, the database introspected, and
\* the file written again; a failure before the write changes nothing.
Update(dir, introspected) ==
    IF \/ ~dir.exists
       \/ ConfigurationFilename \notin DOMAIN dir.entries
    THEN [dir |-> dir, result |-> IoError]
    ELSE IF ~ParsesAsConfiguration(dir.entries[ConfigurationFilename])
    THEN [dir |-> dir, result |-> Err([tag |-> "Parse"])]
    ELSE IF ~introspected
    THEN [dir |-> dir, result |-> Err([tag |-> "Introspection"])]
    ELSE [dir |-> [dir EXCEPT !.entries[ConfigurationFilename] =
                                  "introspected configuration"],
          result |-> Ok("updated")]

DirectoryInputs ==
    { Directory(FALSE, EmptyMap),
      Directory(TRUE, EmptyMap),
      Directory(TRUE, (ConfigurationFilename :> "not a configuration")),
      Directory(TRUE, (ConfigurationFilename :> "empty configuration")),
      Directory(TRUE, ("notes.txt" :> "notes")),
      Directory(TRUE, (MetadataDir :> "directory")) }

InitCli ==
    /\ state \in DirectoryInputs
    /\ issued = <<>>
    /\ op = "shell"
    /\ request = None
    /\ result = None
    /\ previous = None
    /\ runtime = None

\* A command ran in the directory: the directory before it is remembered
\* and its outcome logged.
Ran(command, arguments, outcome) ==
    /\ Len(issued) < MaxCommands
    /\ previous' = state
    /\ state' = outcome.dir
    /\ result' = outcome.result
    /\ op' = command
    /\ request' = arguments
    /\ issued' = Append(issued, [command |-> command, arguments |-> arguments,
                                 ok |-> IsOk(outcome.result)])
    /\ UNCHANGED runtime

DoInitialize ==
    \E with_metadata \in BOOLEAN :
        Ran("initialize", [with_metadata |-> with_metadata],
            Initialize(state, with_metadata))

DoUpdateConfiguration ==
    \E introspected \in BOOLEAN :
        Ran("update", [introspected |-> introspected], Update(state, introspected))

NextCli ==
    \/ DoInitialize
    \/ DoUpdateConfiguration

SpecCli == InitCli /\ [][NextCli]_vars

\* The entries of a directory just initialized.
Initialized(with_metadata) ==
    IF with_metadata
    THEN {ConfigurationFilename, MetadataDir, MetadataFile}
    ELSE {ConfigurationFilename}

\* C26: initialize on a directory that already contains any entry fails
\* with DirectoryIsNotEmpty and creates or changes no file in it; on an
\* empty or missing directory it creates configuration.json, and creates
\* .hasura-connector/connector-metadata.yaml exactly when --with-metadata
\* is given; hence in any sequence of commands on one directory at most the
\* first initialize succeeds.
C26_InitializeOnlyOnEmpty ==
    /\ op = "initialize" =>
          IF previous.exists /\ DOMAIN previous.entries # {}
          THEN result = DirectoryIsNotEmpty /\ state = previous
          ELSE /\ IsOk(result)
               /\ state.exists
               /\ DOMAIN state.entries = Initialized(request.with_metadata)
    /\ \A i \in 1..Len(issued) :
          (issued[i].command = "initialize" /\ issued[i].ok) =>
              \A j \in 1..Len(issued) :
                  (issued[j].command = "initialize" /\ j # i) =>
                      (i < j /\ ~issued[j].ok)

\* A missing directory is initialized with its metadata, then updated, and
\* a second initialize is refused without touching what is there.
C26_Witness ==
    /\ Len(issued) = 3
    /\ issued[1] = [command |-> "initialize",
                    arguments |-> [with_metadata |-> TRUE], ok |-> TRUE]
    /\ issued[2].command = "update" /\ issued[2].ok
    /\ op = "initialize"
    /\ result = DirectoryIsNotEmpty
    /\ state = previous
    /\ state.entries[ConfigurationFilename] = "introspected configuration"
    /\ MetadataFile \in DOMAIN state.entries

(***************************************************************************)
(* The v1 insert against the experimental insert, on SpecMutation: the     *)
(* request is a v1 insert of `_object: o`; the experimental insert of the  *)
(* same table is translated for `_objects: [o]` from the same fresh State. *)
(***************************************************************************)
\* The experimental insert of the request's table on `_objects: [o]` with
\* the constraint argument c (None: not given).
ExperimentalInsertOf(o, c) ==
    ExperimentalInsertTranslate(
        StateNew, ExperimentalInsertGenerate("t", request.table).mutation,
        ("_objects" :> JArray(<<o>>)) @@ Arg("constraint", c)).result

\* The request is a translated v1 insert of a JSON object.
V1InsertOfObject ==
    /\ op = "v1_insert"
    /\ Given("_object")
    /\ request.arguments["_object"].j = "Object"

\* A constraint argument that is given, decodes and translates.
ConstraintTranslates(c) ==
    /\ c # None
    /\ IsOk(TranslatePredicateArgument(
                StateNew, ExperimentalInsertGenerate("t", request.table).mutation,
                Arg("constraint", c), "constraint").result)

\* v and e: both errors and the same one, or both Inserts into the same
\* table with the same column list and the same single row.
SameInsert(v, e) ==
    /\ IsOk(v) <=> IsOk(e)
    /\ ~IsOk(v) => v = e
    /\ IsOk(v) =>
          /\ v.value.insert.schema = e.value.insert.schema
          /\ v.value.insert.table = e.value.insert.table
          /\ v.value.insert.columns = e.value.insert.columns
          /\ Len(e.value.insert.values) = 1
          /\ v.value.insert.values = e.value.insert.values

\* v and e: both errors and the same one, or both Inserts into the same
\* table of one row each that give the same columns the same values, e
\* listing them in ascending order and v in the order `entries`.
SameInsertUpToColumnOrder(v, e, entries) ==
    /\ IsOk(v) <=> IsOk(e)
    /\ ~IsOk(v) => v = e
    /\ IsOk(v) =>
          LET vc == v.value.insert.columns
              ec == e.value.insert.columns
          IN  /\ v.value.insert.schema = e.value.insert.schema
              /\ v.value.insert.table = e.value.insert.table
              /\ Len(v.value.insert.values) = 1
              /\ Len(e.value.insert.values) = 1
              /\ vc = [i \in 1..Len(entries) |-> entries[i][1]]
              /\ ec = SortedSeq(Range(vc))
              /\ Len(ec) = Len(vc)
              /\ \A i \in 1..Len(vc) : \A k \in 1..Len(ec) :
                     vc[i] = ec[k] =>
                         v.value.insert.values[1][i] = e.value.insert.values[1][k]
              /\ (vc = ec) => v.value.insert.values = e.value.insert.values

(***************************************************************************)
(* C27.  As claimed: for every table and every JSON object o, the v1       *)
(* insert on `_object: o` and the experimental insert on `_objects: [o]`   *)
(* agree: both succeed or both fail with the same error, and on success    *)
(* they emit the same column list and the same single row of values.       *)
(***************************************************************************)
C27_SameColumnListAndRow ==
    V1InsertOfObject =>
        \A c \in InsertArguments :
            SameInsert(result, ExperimentalInsertOf(request.arguments["_object"], c))

(***************************************************************************)
(* C27.  For every table and every JSON object o, the v1 insert on         *)
(* `_object: o` and the experimental insert on `_objects: [o]` with a      *)
(* constraint argument that translates agree: both succeed or both fail    *)
(* with the same error, and on success they emit one row that gives the    *)
(* same columns the same values; the experimental insert lists the columns *)
(* in ascending name order and the v1 insert in the iteration order of the *)
(* object's entries, so the column lists and the rows are identical        *)
(* exactly when that order is ascending.                                   *)
(***************************************************************************)
C27_SameColumnsAndValues ==
    V1InsertOfObject =>
        \A c \in InsertArguments :
            ConstraintTranslates(c) =>
                SameInsertUpToColumnOrder(
                    result, ExperimentalInsertOf(request.arguments["_object"], c),
                    request.arguments["_object"].entries)

\* A v1 insert of an object that names "b" before "a" succeeded, and so
\* does the experimental insert of the same object, with "a" before "b".
C27_Witness ==
    /\ V1InsertOfObject
    /\ IsOk(result)
    /\ result.value.insert.columns = <<"b", "a">>
    /\ LET e == ExperimentalInsertOf(request.arguments["_object"],
                                     Some(PredNot(PredIsNull("a"))))
       IN  /\ IsOk(e)
           /\ e.value.insert.columns = <<"a", "b">>

(***************************************************************************)
(* The errors of an experimental insert request, read off the request.     *)
(***************************************************************************)
\* The error of one entry of an object: its name is no column of the
\* table, or its value does not translate; None for a good entry.
EntryError(entry) ==
    IF entry[1] \notin DOMAIN Columns
    THEN Some(Err([tag |-> "ColumnNotFoundInCollection", column |-> entry[1],
                   collection |-> "t"]))
    ELSE IF entry[2] = JBigNumber
    THEN Some(Err([tag |-> "UnableToDeserializeNumberAsF64"]))
    ELSE None

\* The element of `_objects` is no object, or one of its entries is in
\* error.
ItemFails(item) ==
    \/ item.j # "Object"
    \/ \E k \in 1..Len(item.entries) : EntryError(item.entries[k]) # None

\* r is the error of a failing element: UnexpectedStructure for one that
\* is no object, else the error of its first entry in error.
IsItemError(r, item) ==
    IF item.j # "Object" THEN ErrorIs(r, "UnexpectedStructure")
    ELSE LET k == CHOOSE k \in 1..Len(item.entries) :
                      /\ EntryError(item.entries[k]) # None
                      /\ \A h \in 1..(k - 1) : EntryError(item.entries[h]) = None
         IN  r = EntryError(item.entries[k]).value

\* The column rule the object breaks at the catalog column n, or None.
RuleError(n, item) ==
    LET supplied == n \in Keys(item.entries)
    IN  IF Omittable(Columns[n]) THEN None
        ELSE IF Columns[n].is_generated = "Stored"
        THEN IF supplied THEN Some(Err([tag |-> "ColumnIsGenerated", column |-> n]))
             ELSE None
        ELSE IF Columns[n].is_identity = "IdentityAlways"
        THEN IF supplied
             THEN Some(Err([tag |-> "ColumnIsIdentityAlways", column |-> n]))
             ELSE None
        ELSE IF supplied THEN None
        ELSE Some(Err([tag |-> "MissingColumnInInsert", column |-> n,
                       collection |-> "t"]))

ItemBreaksRule(item) == \E n \in DOMAIN Columns : RuleError(n, item) # None

\* The rule error of the smallest catalog column name the object offends.
SmallestRuleError(item) ==
    LET names == SortedSeq(DOMAIN Columns)
        k == CHOOSE k \in 1..Len(names) :
                 /\ RuleError(names[k], item) # None
                 /\ \A h \in 1..(k - 1) : RuleError(names[h], item) = None
    IN  RuleError(names[k], item).value

\* The first index of `items` whose element satisfies P.
FirstIndex(items, P(_)) ==
    CHOOSE i \in 1..Len(items) : P(items[i]) /\ \A h \in 1..(i - 1) : ~P(items[h])

NotAnObject(item) == item.j # "Object"

\* The answer to the `constraint` argument alone.
ConstraintAnswer ==
    TranslatePredicateArgument(
        StateNew, ExperimentalInsertGenerate("t", request.table).mutation,
        request.arguments, "constraint").result

\* What the objects and the constraint leave once every element of items
\* is an object with good entries: the first rule error, then the
\* constraint's, then an Insert.
RulesThenConstraint(items) ==
    IF \E i \in 1..Len(items) : ItemBreaksRule(items[i])
    THEN result = SmallestRuleError(items[FirstIndex(items, ItemBreaksRule)])
    ELSE IF ~Given("constraint")
            \/ DecodeExpression(request.arguments["constraint"]) = None
    THEN result = ArgumentNotFound("constraint")
    ELSE IF ~IsOk(ConstraintAnswer)
    THEN result = ConstraintAnswer
    ELSE IsOk(result) /\ Len(result.value.insert.values) = Len(items)

(***************************************************************************)
(* C28.  As claimed: the experimental insert reports the first error in a  *)
(* fixed order of kinds: a missing `_objects`, then a non-array `_objects` *)
(* or a non-object element (UnexpectedStructure), then an unknown column   *)
(* or untranslatable value in any object in array order, then column-rule  *)
(* errors, then the constraint's.                                          *)
(***************************************************************************)
C28_StructureBeforeEntries ==
    op = "experimental_insert" =>
        IF ~Given("_objects") THEN result = ArgumentNotFound("_objects")
        ELSE IF request.arguments["_objects"].j # "Array"
        THEN ErrorIs(result, "UnexpectedStructure")
        ELSE LET items == request.arguments["_objects"].items
             IN  IF \E i \in 1..Len(items) : NotAnObject(items[i])
                 THEN ErrorIs(result, "UnexpectedStructure")
                 ELSE IF \E i \in 1..Len(items) : ItemFails(items[i])
                 THEN IsItemError(result, items[FirstIndex(items, ItemFails)])
                 ELSE RulesThenConstraint(items)

(***************************************************************************)
(* C28.  The experimental insert reports the first error in a fixed        *)
(* evaluation order: a missing `_objects` argument; then a non-array       *)
(* `_objects` (UnexpectedStructure); then, element by element in array     *)
(* order, an element that is no object (UnexpectedStructure) or the first  *)
(* unknown column or untranslatable value among an object's entries; then  *)
(* column-rule errors for the earliest offending object and within it the  *)
(* smallest catalog column name; and only then a missing or undecodable    *)
(* `constraint` argument (ArgumentNotFound) and errors of the predicate    *)
(* itself.  No Insert is returned when any of these occurs, and one is     *)
(* when none does.                                                         *)
(***************************************************************************)
C28_FirstErrorInEvaluationOrder ==
    op = "experimental_insert" =>
        IF ~Given("_objects") THEN result = ArgumentNotFound("_objects")
        ELSE IF request.arguments["_objects"].j # "Array"
        THEN ErrorIs(result, "UnexpectedStructure")
        ELSE LET items == request.arguments["_objects"].items
             IN  IF \E i \in 1..Len(items) : ItemFails(items[i])
                 THEN IsItemError(result, items[FirstIndex(items, ItemFails)])
                 ELSE RulesThenConstraint(items)

\* An insert of an object with an unknown column followed by an element
\* that is no object, without a constraint: the unknown column is the
\* error reported.
C28_Witness ==
    /\ op = "experimental_insert"
    /\ Given("_objects")
    /\ ~Given("constraint")
    /\ request.arguments["_objects"] =
          JArray(<<JObject(<< <<"b", JNumber(Some(1))>>, <<"zz", JBool(TRUE)>> >>),
                   JString("s")>>)
    /\ result = Err([tag |-> "ColumnNotFoundInCollection", column |-> "zz",
                     collection |-> "t"])

====
